---- MODULE Spec2Model ----
(***************************************************************************)
(* Model of the cryptoquant fetch/parse pipeline (lib/chart) :             *)
(*   - the multi-dimension inclusion filter of fetch_charts,               *)
(*   - the six pipeline workers started by CryptoQuantChart.fetch and the  *)
(*     zero-capacity memory object streams that connect them,              *)
(*   - CryptoQuantAuthorization.run (lib/authorization), run by several    *)
(*     tasks on the shared HTTP client,                                    *)
(*   - one call of a parse function (lib/chart/parse.py) and the           *)
(*     transaction of its session,                                         *)
(*   - main (bin/main.py) down to CryptoQuantChart.run and get_charts.     *)
(***************************************************************************)
EXTENDS Integers, Sequences, FiniteSets, TLC

(***************************************************************************)
(* Bounds of the model.                                                    *)
(***************************************************************************)
\* charts in one metric's chart listing (filter specification)
MaxCharts == 2
\* dimension roles used by the charts of one metric
MaxRoles == 2
\* role allow-lists the user gives at once
MaxAllowLists == 1
\* catalog of the pipeline specification: assets, categories per asset,
\* metrics per category, charts per metric
MaxAssets == 2
MaxCategories == 1
MaxMetrics == 1
MaxMetricCharts == 2
\* cap of the per-worker count of authenticator runs between two fetches
MaxAuthRuns == 2

\* tasks that call the authenticator's run() on the shared client
MaxRunners == 2
\* cap of the per-run count of entries of one authenticator state
MaxEntries == 2

\* whoami and reissue calls counted per entered state
MaxCalls == 3

\* Python's None
None == "None"

(***************************************************************************)
(* Catalog vocabulary: the JSON field of each of the nine dimension roles  *)
(* and the keys the catalog uses for it in the model.                      *)
(***************************************************************************)
Roles ==
    {"miner", "fromMiner", "toMiner", "market", "exchange",
     "fromExchange", "toExchange", "fromBank", "symbol"}

RoleKeys(role) ==
    CASE role \in {"miner", "fromMiner", "toMiner"} -> {"all_miner", "f2pool"}
      [] role \in {"exchange", "fromExchange"} -> {"all_exchange", "binance"}
      [] role = "toExchange" ->
             {"spot_exchange", "derivative_exchange", "all_exchange",
              "binance"}
      [] role = "market" -> {"spot", "perpetual"}
      [] role = "fromBank" -> {"silvergate", "signature"}
      [] role = "symbol" -> {"all_symbol", "btc_usd"}

\* a chart that sets no role
NoRoleChart == [role \in Roles |-> None]

\* the constructor defaults: every filter argument omitted
NoFilter ==
    [assets |-> <<>>, categories |-> <<>>, metrics |-> <<>>,
     miners |-> {}, to_miners |-> {}, from_miners |-> {}, markets |-> {},
     exchanges |-> {}, from_exchanges |-> {}, to_exchanges |-> {},
     from_banks |-> {}, symbols |-> {}, fields |-> {}]

VARIABLES
    self,       \* the CryptoQuantChart allow-lists (assets .. fields)
    metric,     \* fetch_charts: the chart listing fetched for one metric
    fpc,        \* fetch_charts: position of the filter loop
    passed,     \* per chart of the listing, the roles it is included on
    sent,       \* indexes of the charts handed to chart_sender.send
    orch,       \* CryptoQuantChart.fetch: position of the orchestrator
    pc,         \* per worker, the await it is suspended at
    cur,        \* per worker, the input item it holds (<<>>: none)
    out,        \* per worker, the items it still has to send for cur
    values,     \* fetch_chart_values: its local `values`
    sender_closed,      \* per stream, the send end is closed
    receiver_closed,    \* per stream, the receive end is closed
    error,      \* per worker, the exception that ended it
    retry,      \* per worker, a fetch for cur has returned None
    auth_runs,  \* per worker, _auth.run() calls completed since its last fetch
    skipped,    \* <<parse function, item>> for which the parse returned None
    store,      \* persisted rows, <<entity, primary key>>
    parsed,     \* <<parse function, item>> for which the parse persisted
    pass,       \* the number of the fetch() that is running or has ended
    first,      \* the store as the first fetch() has left it
    scoped,     \* per worker, its task has a session in the scoped registry
    txn,        \* the parse call in progress and its session transaction
    configs,    \* main: the chart configurations of the command line
    main,       \* main: its position, the charts it has built, its error
    requests,   \* the number of fetch() calls that have requested the catalog
    auth_calls, \* the number of authenticator runs
    table,      \* the charts in the database, with fields and value rows
    loaded,     \* get_charts: the chart objects it has loaded
    stage,      \* one stage of fetch() started with n workers
    decode,     \* the values of one chart, from the response to the rows
    buffer,     \* per stream, the items sent and not yet received
    sends,      \* per stream, the number of completed sends
    receives,   \* per stream, the number of completed receives
    log,        \* per stream, the items whose send has completed, in order
    auth_arg,   \* the CryptoQuantAuthorization the caller has constructed
    via,        \* who calls run(): the caller itself or a CryptoQuantChart
    auth,       \* username and password of the authenticator that is run
    session_headers,    \* ClientSession.headers[AUTHORIZATION]
    valid,      \* the access tokens the server accepts
    authorizations,     \* rows of the table service.authorization
    run,        \* per task that calls run(), the locals of the call
    hist        \* per task, what its run has done so far

filterVars == <<metric, fpc, passed, sent>>

pipeVars ==
    <<orch, pc, cur, out, values, sender_closed, receiver_closed, error,
      retry, auth_runs, skipped, store, parsed, buffer, sends, receives, log,
      pass, first, scoped>>

authVars ==
    <<auth_arg, via, auth, session_headers, valid, authorizations, run, hist>>

\* what the pipeline, the filter loop and the authenticator leave alone
mainVars == <<configs, main, requests, auth_calls, table, loaded>>

outerVars == <<txn, mainVars, stage, decode>>

(***************************************************************************)
(* fetch_charts, lines 459-488: is the role's wildcard key used by any     *)
(* chart of the listing.                                                   *)
(***************************************************************************)
all_miner(charts) ==
    \E i \in 1..Len(charts) : charts[i]["miner"] = "all_miner"

all_from_miner(charts) ==
    \E i \in 1..Len(charts) : charts[i]["fromMiner"] = "all_miner"

all_to_miner(charts) ==
    \E i \in 1..Len(charts) : charts[i]["toMiner"] = "all_miner"

all_exchange(charts) ==
    \E i \in 1..Len(charts) : charts[i]["exchange"] = "all_exchange"

all_from_exchange(charts) ==
    \E i \in 1..Len(charts) : charts[i]["fromExchange"] = "all_exchange"

all_to_exchange_typo(charts) ==
    \E i \in 1..Len(charts) : charts[i]["toExchange"] = "all_exchange"

all_to_exchange(charts) ==
    \E i \in 1..Len(charts) :
        charts[i]["toExchange"] \in {"spot_exchange", "derivative_exchange"}

all_symbol(charts) ==
    \E i \in 1..Len(charts) : charts[i]["symbol"] = "all_symbol"

(***************************************************************************)
(* fetch_charts, lines 509-581: the nine conjuncts of the `if`, one per    *)
(* role (Python: A or B and C or D  is  A or (B and C) or D).              *)
(***************************************************************************)
miner_cond(s, charts, chart) ==
    LET miner_key == chart["miner"] IN
    \/ miner_key = None
    \/ /\ s.miners = {}
       /\ (~all_miner(charts) \/ miner_key = "all_miner")
    \/ \E x \in s.miners : x = miner_key

from_miner_cond(s, charts, chart) ==
    LET from_miner_key == chart["fromMiner"] IN
    \/ from_miner_key = None
    \/ /\ s.from_miners = {}
       /\ (~all_from_miner(charts) \/ from_miner_key = "all_miner")
    \/ \E x \in s.from_miners : x = from_miner_key

to_miner_cond(s, charts, chart) ==
    LET to_miner_key == chart["toMiner"] IN
    \/ to_miner_key = None
    \/ /\ s.to_miners = {}
       /\ (~all_to_miner(charts) \/ to_miner_key = "all_miner")
    \/ \E x \in s.to_miners : x = to_miner_key

market_cond_strict(s, charts, chart) ==
    LET market_key == chart["market"] IN
    \/ market_key = None
    \/ \E x \in s.markets : x = market_key

market_cond(s, charts, chart) ==
    LET market_key == chart["market"] IN
    \/ (market_key = None \/ s.markets = {})
    \/ \E x \in s.markets : x = market_key

exchange_cond_loose(s, charts, chart) ==
    LET exchange_key == chart["exchange"] IN
    \/ exchange_key = None
    \/ (~all_exchange(charts) \/ exchange_key = "all_exchange")
    \/ \E x \in s.exchanges : x = exchange_key

exchange_cond(s, charts, chart) ==
    LET exchange_key == chart["exchange"] IN
    \/ exchange_key = None
    \/ /\ s.exchanges = {}
       /\ (~all_exchange(charts) \/ exchange_key = "all_exchange")
    \/ \E x \in s.exchanges : x = exchange_key

from_exchange_cond(s, charts, chart) ==
    LET from_exchange_key == chart["fromExchange"] IN
    \/ from_exchange_key = None
    \/ /\ s.from_exchanges = {}
       /\ (~all_from_exchange(charts) \/ from_exchange_key = "all_exchange")
    \/ \E x \in s.from_exchanges : x = from_exchange_key

\* line 568 compares from_exchange_key with the to_exchanges allow-list
to_exchange_cond(s, charts, chart) ==
    LET to_exchange_key == chart["toExchange"]
        from_exchange_key == chart["fromExchange"] IN
    \/ to_exchange_key = None
    \/ /\ s.to_exchanges = {}
       /\ \/ ~all_to_exchange(charts)
          \/ to_exchange_key \in {"spot_exchange", "derivative_exchange"}
    \/ \E x \in s.to_exchanges : x = from_exchange_key

from_bank_cond(s, charts, chart) ==
    LET from_bank_key == chart["fromBank"] IN
    \/ (from_bank_key = None \/ s.from_banks = {})
    \/ \E x \in s.from_banks : x = from_bank_key

symbol_cond_set_only(s, charts, chart) ==
    LET symbol_key == chart["symbol"] IN
    \/ /\ s.symbols = {}
       /\ (~all_symbol(charts) \/ symbol_key = "all_symbol")
    \/ \E x \in s.symbols : x = symbol_key

symbol_cond(s, charts, chart) ==
    LET symbol_key == chart["symbol"] IN
    \/ symbol_key = None
    \/ /\ s.symbols = {}
       /\ (~all_symbol(charts) \/ symbol_key = "all_symbol")
    \/ \E x \in s.symbols : x = symbol_key

\* the conjunct of the `if` that belongs to a role
RoleCond(role, s, charts, chart) ==
    CASE role = "miner" -> miner_cond(s, charts, chart)
      [] role = "fromMiner" -> from_miner_cond(s, charts, chart)
      [] role = "toMiner" -> to_miner_cond(s, charts, chart)
      [] role = "market" -> market_cond(s, charts, chart)
      [] role = "exchange" -> exchange_cond(s, charts, chart)
      [] role = "fromExchange" -> from_exchange_cond(s, charts, chart)
      [] role = "toExchange" -> to_exchange_cond(s, charts, chart)
      [] role = "fromBank" -> from_bank_cond(s, charts, chart)
      [] role = "symbol" -> symbol_cond(s, charts, chart)

\* Python's == between a str and a set: values of different types are
\* never equal.
StrEqSet(x, S) == FALSE

\* lines 506-507: all(_ == field_keys for _ in self.fields) compares each
\* allow-listed str with the set field_keys.
fields_cond(s, field_keys) ==
    \/ s.fields = {}
    \/ \A x \in s.fields : StrEqSet(x, field_keys)

\* lines 489: field_keys = {field.key for field in fields}
field_keys_of(m) == {m.metricFields[i] : i \in 1..Len(m.metricFields)}

\* lines 504-582: the whole `if` of the loop body
chart_cond(s, m, chart) ==
    /\ fields_cond(s, field_keys_of(m))
    /\ \A role \in Roles : RoleCond(role, s, m.charts, chart)

\* lines 490-597: the charts of the listing that are sent, in order
RECURSIVE SentIndexes(_, _, _)
SentIndexes(s, m, i) ==
    IF i > Len(m.charts) THEN <<>>
    ELSE (IF chart_cond(s, m, m.charts[i]) THEN <<i>> ELSE <<>>)
         \o SentIndexes(s, m, i + 1)

(***************************************************************************)
(* Inputs of the filter specification.                                     *)
(***************************************************************************)
RoleSets == {D \in SUBSET Roles : Cardinality(D) <= MaxRoles}

AllKeys == UNION {RoleKeys(role) : role \in Roles}

\* charts that set only roles of D, each to one of the role's catalog keys
ChartsOver(D) ==
    {[role \in Roles |-> IF role \in D THEN g[role] ELSE None] :
        g \in {h \in [D -> AllKeys \cup {None}] :
                 \A role \in D : h[role] \in RoleKeys(role) \cup {None}}}

ChartLists(D) ==
    UNION {[1..n -> ChartsOver(D)] : n \in 0..MaxCharts}

\* the allow-list attribute of a role
AllowField(role) ==
    CASE role = "miner" -> "miners"
      [] role = "fromMiner" -> "from_miners"
      [] role = "toMiner" -> "to_miners"
      [] role = "market" -> "markets"
      [] role = "exchange" -> "exchanges"
      [] role = "fromExchange" -> "from_exchanges"
      [] role = "toExchange" -> "to_exchanges"
      [] role = "fromBank" -> "from_banks"
      [] role = "symbol" -> "symbols"

RECURSIVE AllowChoices(_)
AllowChoices(S) ==
    IF S = {} THEN {NoFilter}
    ELSE LET role == CHOOSE r \in S : TRUE IN
         UNION {{[a EXCEPT ![AllowField(role)] = L] :
                    L \in (SUBSET RoleKeys(role)) \ {{}}} :
                a \in AllowChoices(S \ {role})}

\* the field keys a user may allow-list, and the field list of the metric
FieldKeys == {"a", "b", "c"}

FieldLists == {<<"a", "b">>}

\* role allow-lists for at most MaxAllowLists roles of D, or a field
\* allow-list alone
SelfInputs(D) ==
    UNION {AllowChoices(S) :
             S \in {T \in SUBSET D : Cardinality(T) <= MaxAllowLists}}
    \cup {[NoFilter EXCEPT !.fields = F] : F \in (SUBSET FieldKeys) \ {{}}}

(***************************************************************************)
(* The pipeline: workers, streams and catalog.                             *)
(***************************************************************************)
\* the six worker coroutines that fetch() starts, in pipeline order
Workers ==
    <<"fetch_assets", "fetch_categories", "fetch_metrics", "fetch_charts",
      "fetch_chart", "fetch_chart_values">>

WorkerSet == {Workers[i] : i \in 1..Len(Workers)}

\* the five memory object streams of fetch(), named after their sender
Streams == {"asset", "category", "metric", "chart", "value"}

\* the stream a worker receives from / sends on ("": none)
In(w) ==
    CASE w = "fetch_assets" -> ""
      [] w = "fetch_categories" -> "asset"
      [] w = "fetch_metrics" -> "category"
      [] w = "fetch_charts" -> "metric"
      [] w = "fetch_chart" -> "chart"
      [] w = "fetch_chart_values" -> "value"

Out(w) ==
    CASE w = "fetch_assets" -> "asset"
      [] w = "fetch_categories" -> "category"
      [] w = "fetch_metrics" -> "metric"
      [] w = "fetch_charts" -> "chart"
      [] w = "fetch_chart" -> "value"
      [] w = "fetch_chart_values" -> ""

(***************************************************************************)
(* The authenticator (lib/authorization): vocabulary.  A Python str is the *)
(* sequence of its parts, '' is <<>>, and None in a str slot is Null.      *)
(***************************************************************************)
Null == <<None>>

Str(t) == <<t>>

\* `x or ''`
OrEmpty(x) == IF x = Null THEN <<>> ELSE x

\* str.removeprefix('Bearer ')
removeprefix(x) == IF x # <<>> /\ Head(x) = "Bearer " THEN Tail(x) ELSE x

\* 'Bearer ' + access
Bearer(access) == <<"Bearer ">> \o access

\* truth value of an Optional[str]
Truthy(x) == x # Null /\ x # <<>>

Runners == 1..MaxRunners

\* the access tokens the server issues: to a sign-in with the configured
\* credentials, to a sign-in at the prompt, and to a reissue, per task
SignInToken(r) == <<"cfg1", "cfg2", "cfg3">>[r]

PromptToken(r) == <<"inp1", "inp2", "inp3">>[r]

ReissueToken(r) == <<"new1", "new2", "new3">>[r]

\* the refresh token that comes with an access token
RefreshOf(t) == <<t, "_refresh">>

Issued ==
    UNION {{SignInToken(r), PromptToken(r), ReissueToken(r)} : r \in Runners}

Authenticator ==
    <<"HeaderToken", "PasswordSignIn", "StoredToken", "InteractivePrompt">>

AuthenticatorStates == {Authenticator[i] : i \in 1..Len(Authenticator)}

\* CryptoQuantAuthorization.__init__, lines 44-45
CryptoQuantAuthorization(username, password) ==
    [username |-> username, password |-> password]

\* CryptoQuantChart.__init__, lines 136-144: the authenticator of the chart
IsAuthorization(session) == session = "CryptoQuantAuthorization"

chart_auth(session, a) ==
    IF IsAuthorization(session) THEN a
    ELSE CryptoQuantAuthorization(Null, Null)

\* run(), lines 66-68 and 70
NewRun ==
    [pc |-> "idle", fetched_headers |-> FALSE, fetched_parameters |-> FALSE,
     fetched_auth |-> FALSE, access |-> Null, refresh |-> Null,
     username |-> Null, request |-> Null]

NoHist ==
    [state |-> "none",
     entries |-> [st \in AuthenticatorStates |-> 0],
     header |-> Null, sign_ins |-> 0, whoami |-> "none", validated |-> Null,
     merged |-> FALSE, error |-> "none", whoamis |-> 0, reissues |-> 0]

AuthIdle ==
    /\ auth_arg = CryptoQuantAuthorization(Null, Null)
    /\ via = "caller"
    /\ auth = auth_arg
    /\ session_headers = Null
    /\ valid = {}
    /\ authorizations = {}
    /\ run = [r \in Runners |-> NewRun]
    /\ hist = [r \in Runners |-> NoHist]

\* no parse function has been called
NoTxn ==
    [fn |-> None, item |-> <<>>, outcome |-> None, begin |-> {},
     pc |-> "idle", todo |-> <<>>, pending |-> {}, result |-> None]

\* what one call of CryptoQuantChart.run has done: `stored` and `before`
\* are the matching charts and the number of catalog requests when it was
\* called, `session` the state of the task's scoped session, `read` the
\* call of get_charts (1 before fetch(), 2 after it) whose charts were
\* returned and `result` these charts
NewChartRun(stored, before) ==
    [stored |-> stored, before |-> before, fetched |-> FALSE,
     session |-> "unused", ended |-> "no", read |-> 0, result |-> <<>>]

\* main has not been called
NoMain ==
    [pc |-> "idle", charts |-> <<>>, index |-> 0, phase |-> 0,
     error |-> None, run |-> NewChartRun(<<>>, 0)]

\* get_charts has not been called
NoLoad == [charts |-> <<>>, fields |-> <<>>, i |-> 0]

MainIdle ==
    /\ configs = <<>>
    /\ main = NoMain
    /\ requests = 0
    /\ auth_calls = 0
    /\ table = <<>>
    /\ loaded = NoLoad

\* no stage has been started with workers of its own
NoStage ==
    [n |-> 0, todo |-> 0, upstream |-> "open", pc |-> <<>>, error |-> <<>>,
     receiver_closed |-> FALSE, sender_closed |-> FALSE, sent |-> 0,
     downstream |-> "recv"]

\* no chart has been requested
NoDecode == [pc |-> "idle", wire |-> <<>>, data |-> <<>>, rows |-> {}]

\* the streams and the workers of fetch() before it is called
QueuesIdle ==
    /\ orch = "idle"
    /\ pc = [w \in WorkerSet |-> "unstarted"]
    /\ cur = [w \in WorkerSet |-> <<>>]
    /\ out = [w \in WorkerSet |-> <<>>]
    /\ values = None
    /\ sender_closed = [st \in Streams |-> FALSE]
    /\ receiver_closed = [st \in Streams |-> FALSE]
    /\ error = [w \in WorkerSet |-> "none"]
    /\ retry = [w \in WorkerSet |-> FALSE]
    /\ auth_runs = [w \in WorkerSet |-> 0]
    /\ skipped = {}
    /\ parsed = {}
    /\ pass = 1
    /\ first = {}
    /\ buffer = [st \in Streams |-> <<>>]
    /\ sends = [st \in Streams |-> 0]
    /\ receives = [st \in Streams |-> 0]
    /\ log = [st \in Streams |-> <<>>]
    /\ scoped = [w \in WorkerSet |-> FALSE]

\* the streams and the workers before fetch() is called
StreamsIdle ==
    /\ QueuesIdle
    /\ stage = NoStage
    /\ decode = NoDecode

\* the state of the pipeline before fetch() is called
PipeIdle ==
    /\ StreamsIdle
    /\ store = {}
    /\ txn = NoTxn
    /\ MainIdle

FilterInit ==
    /\ PipeIdle
    /\ AuthIdle
    /\ \E D \in RoleSets :
          /\ metric \in [charts : ChartLists(D), metricFields : FieldLists]
          /\ self \in SelfInputs(D)
    /\ fpc = "listing"
    /\ passed = <<>>
    /\ sent = <<>>

\* fetch_charts, lines 459-597 for one fetched listing
filter_charts ==
    /\ fpc = "listing"
    /\ fpc' = "filtered"
    /\ passed' = [i \in 1..Len(metric.charts) |->
                    {role \in Roles :
                        RoleCond(role, self, metric.charts, metric.charts[i])}]
    /\ sent' = SentIndexes(self, metric, 1)
    /\ UNCHANGED <<self, outerVars, metric>>
    /\ UNCHANGED pipeVars
    /\ UNCHANGED authVars

FilterNext == filter_charts

vars ==
    <<self, metric, fpc, passed, sent, orch, pc, cur, out, values,
      sender_closed, receiver_closed, error, retry, auth_runs, skipped, store,
      parsed, buffer, sends, receives, log, pass, first, scoped, txn,
      configs, main, requests, auth_calls, table, loaded, stage, decode,
      auth_arg, via, auth, session_headers, valid, authorizations, run, hist>>

SpecFilter == FilterInit /\ [][FilterNext]_vars

(***************************************************************************)
(* Properties of the inclusion filter (specification SpecFilter).          *)
(***************************************************************************)
\* the user allow-list of a role
Allow(role) == self[AllowField(role)]

\* the catalog-level wildcard keys of a role; market and from-bank have none
WildcardKeys(role) ==
    CASE role \in {"miner", "fromMiner", "toMiner"} -> {"all_miner"}
      [] role \in {"exchange", "fromExchange"} -> {"all_exchange"}
      [] role = "toExchange" -> {"spot_exchange", "derivative_exchange"}
      [] role = "symbol" -> {"all_symbol"}
      [] OTHER -> {}

\* some chart of the listing carries a wildcard key of the role
HasWildcard(role) ==
    \E i \in 1..Len(metric.charts) :
        metric.charts[i][role] \in WildcardKeys(role)

Filtered == fpc = "filtered"

\* C7: with no wildcard-keyed chart on role R in the listing and an empty
\* allow-list for R, every chart of the listing is included on R (all nine
\* roles).
C7_NoWildcardNoAllowList ==
    Filtered =>
        \A role \in Roles :
            (~HasWildcard(role) /\ Allow(role) = {}) =>
                \A i \in 1..Len(metric.charts) : role \in passed[i]

C7_Witness ==
    /\ Filtered
    /\ Len(metric.charts) = 2
    /\ \E role \in Roles :
          /\ ~HasWildcard(role)
          /\ Allow(role) = {}
          /\ metric.charts[1][role] # None
          /\ metric.charts[2][role] # None
          /\ metric.charts[1][role] # metric.charts[2][role]
          /\ role \in passed[1] \cap passed[2]

\* C8: with a wildcard-keyed chart on role R in the listing and an empty
\* allow-list for R, a chart that sets R is included on R iff its key is a
\* wildcard key of R.
C8_WildcardNoAllowList ==
    Filtered =>
        \A role \in Roles :
            (HasWildcard(role) /\ Allow(role) = {}) =>
                \A i \in 1..Len(metric.charts) :
                    metric.charts[i][role] # None =>
                        (role \in passed[i] <=>
                            metric.charts[i][role] \in WildcardKeys(role))

C8_Witness ==
    /\ Filtered
    /\ Len(metric.charts) = 2
    /\ Allow("toExchange") = {}
    /\ metric.charts[1]["toExchange"] = "binance"
    /\ metric.charts[2]["toExchange"] = "derivative_exchange"
    /\ "toExchange" \notin passed[1]
    /\ "toExchange" \in passed[2]

\* C9: for every role but to-exchange, with a non-empty allow-list for R a
\* chart that sets R is included on R iff its key is in the allow-list,
\* whether or not the listing has a wildcard-keyed chart on R.
C9_AllowList ==
    Filtered =>
        \A role \in Roles \ {"toExchange"} :
            Allow(role) # {} =>
                \A i \in 1..Len(metric.charts) :
                    metric.charts[i][role] # None =>
                        (role \in passed[i] <=>
                            metric.charts[i][role] \in Allow(role))

C9_Witness ==
    /\ Filtered
    /\ \E role \in Roles \ {"toExchange"} :
          /\ Allow(role) # {}
          /\ HasWildcard(role)
          /\ \E i, j \in 1..Len(metric.charts) :
                /\ metric.charts[i][role] \in WildcardKeys(role)
                /\ metric.charts[i][role] \notin Allow(role)
                /\ role \notin passed[i]
                /\ metric.charts[j][role] \in Allow(role)
                /\ role \in passed[j]

\* C10: with a non-empty to-exchange allow-list, a chart that sets the
\* to-exchange role is included on it iff its to-exchange key is in the
\* allow-list, whatever its from-exchange key.
C10_ToExchangeAllowList ==
    Filtered =>
        (Allow("toExchange") # {} =>
            \A i \in 1..Len(metric.charts) :
                metric.charts[i]["toExchange"] # None =>
                    ("toExchange" \in passed[i] <=>
                        metric.charts[i]["toExchange"] \in Allow("toExchange")))

\* C11: a chart that does not set role R (its key for R is null) is included
\* on R whatever the allow-list of R (empty or not) and whether or not the
\* listing has a wildcard-keyed chart on R, for all nine roles.
C11_AbsentRoleIncluded ==
    Filtered =>
        \A role \in Roles :
            \A i \in 1..Len(metric.charts) :
                metric.charts[i][role] = None => role \in passed[i]

C11_Witness ==
    /\ Filtered
    /\ Len(metric.charts) = 2
    /\ \E role \in Roles :
          /\ Allow(role) # {}
          /\ metric.charts[1][role] = None
          /\ metric.charts[2][role] \in WildcardKeys(role)
          /\ metric.charts[2][role] \notin Allow(role)
          /\ role \in passed[1]
          /\ role \notin passed[2]

\* the indexes of the charts handed to chart_sender.send
SentSet == {sent[j] : j \in 1..Len(sent)}

\* C13: the fields check passes for every metric when the field allow-list
\* is empty; with a non-empty field allow-list it passes for a metric every
\* allow-listed key of which is one of the metric's field keys, and fails for
\* any other metric.  (A chart is sent iff the fields check passes and the
\* chart is included on all nine roles.)
C13_FieldsCheck ==
    Filtered =>
        LET satisfied == self.fields \subseteq field_keys_of(metric)
        IN \A i \in 1..Len(metric.charts) :
               i \in SentSet <=> (satisfied /\ passed[i] = Roles)

(***************************************************************************)
(* Catalog of the pipeline specification.  An item is the path of catalog  *)
(* keys that leads to it: <<asset>>, <<asset, category>>, ... ; the value  *)
(* item of fetch_chart carries the fetched values as a fifth component.    *)
(***************************************************************************)
Last(item) == item[Len(item)]

Range(seq) == {seq[i] : i \in 1..Len(seq)}

\* fetch_assets / fetch_metrics / category['metrics']: the children of an
\* item in listing order (dicts keep insertion order)
Listing(item) ==
    CASE Len(item) = 0 -> [a \in 1..MaxAssets |-> <<a>>]
      [] Len(item) = 1 -> [c \in 1..MaxCategories |-> item \o <<c>>]
      [] Len(item) = 2 -> [m \in 1..MaxMetrics |-> item \o <<m>>]

\* a loop over the allow-list that ends at the first id that is not listed
RECURSIVE SelectAllowed_until_absent(_, _)
SelectAllowed_until_absent(allow, listing) ==
    IF allow = <<>> THEN <<>>
    ELSE LET hit == {i \in 1..Len(listing) : Last(listing[i]) = Head(allow)}
         IN IF hit = {} THEN <<>>
            ELSE <<listing[CHOOSE i \in hit : TRUE]>>
                    \o SelectAllowed_until_absent(Tail(allow), listing)

\* lines 321-333, 358-374, 398-416: with an allow-list, the listed entries
\* named by it, in allow-list order; without, the whole listing
RECURSIVE SelectAllowed(_, _)
SelectAllowed(allow, listing) ==
    IF allow = <<>> THEN <<>>
    ELSE LET hit == {i \in 1..Len(listing) : Last(listing[i]) = Head(allow)}
         IN (IF hit = {} THEN <<>> ELSE <<listing[CHOOSE i \in hit : TRUE]>>)
            \o SelectAllowed(Tail(allow), listing)

Allowed(allow, listing) ==
    IF allow # <<>> THEN SelectAllowed(allow, listing) ELSE listing

\* the chart listing the catalog returns for every metric: an aggregate
\* chart, a chart of one exchange, then charts without a dimension role
CatalogChart(k) ==
    CASE k = 1 -> [NoRoleChart EXCEPT !["exchange"] = "all_exchange"]
      [] k = 2 -> [NoRoleChart EXCEPT !["exchange"] = "binance"]
      [] OTHER -> NoRoleChart

CatalogMetric ==
    [charts |-> [k \in 1..MaxMetricCharts |-> CatalogChart(k)],
     metricFields |-> <<"a", "b">>]

\* chart items that are filed under the metric of the last listed asset
ChartItems_of_last_asset(s, item) ==
    LET idx == SentIndexes(s, CatalogMetric, 1)
    IN [i \in 1..Len(idx) |-> <<MaxAssets>> \o Tail(item) \o <<idx[i]>>]

\* lines 490-590: the chart items fetch_charts sends for a metric item
ChartItems(s, item) ==
    LET idx == SentIndexes(s, CatalogMetric, 1)
    IN [i \in 1..Len(idx) |-> item \o <<idx[i]>>]

\* an id that no catalog listing contains
Absent == 0

\* the allow-list configurations of the pipeline specification
PipeFilters ==
    {NoFilter,
     [NoFilter EXCEPT !.exchanges = {"all_exchange", "binance"}],
     [NoFilter EXCEPT !.fields = {"a"}],
     [NoFilter EXCEPT !.assets = <<Absent, MaxAssets>>,
                      !.categories = <<1, Absent, 1>>,
                      !.metrics = <<Absent, 1>>],
     [NoFilter EXCEPT !.metrics = <<Absent>>]}

(***************************************************************************)
(* Worker control state.                                                   *)
(***************************************************************************)
Ended == {"done", "failed", "cancelled"}

\* a worker has raised: the task group cancels the others
Aborting == \E w \in WorkerSet : pc[w] = "failed"

\* an event loop that a task at the authenticator's prompt would hold
Running_blocking_input ==
    orch = "running" /\ ~Aborting /\ \A w \in WorkerSet : pc[w] # "auth"

\* the workers are tasks of one task group: each runs whenever its own
\* await is ready, until one of them raises
Running == orch = "running" /\ ~Aborting

\* worker w moves to p with item c, outputs o, retry flag r and error e;
\* close: it leaves its `async with`, which closes both of its streams
Ctl(w, p, c, o, r, e, close) ==
    /\ pc' = [pc EXCEPT ![w] = p]
    /\ cur' = [cur EXCEPT ![w] = c]
    /\ out' = [out EXCEPT ![w] = o]
    /\ retry' = [retry EXCEPT ![w] = r]
    /\ error' = [error EXCEPT ![w] = e]
    /\ sender_closed' =
          [st \in Streams |-> sender_closed[st] \/ (close /\ st = Out(w))]
    /\ receiver_closed' =
          [st \in Streams |-> receiver_closed[st] \/ (close /\ st = In(w))]

Goto(w, p) == Ctl(w, p, cur[w], out[w], retry[w], "none", FALSE)

\* `continue` / end of the loop body: back to `async for`
Continue(w) == Ctl(w, "recv", <<>>, <<>>, FALSE, "none", FALSE)

\* the worker leaves its `async with` normally
Exit(w) == Ctl(w, "done", <<>>, <<>>, retry[w], "none", TRUE)

\* the worker leaves its `async with` with exception e
Raise(w, e) == Ctl(w, "failed", <<>>, <<>>, retry[w], e, TRUE)

\* the worker starts sending the items L, or has nothing to send
Emit(w, L) ==
    IF L # <<>> THEN Ctl(w, "send", cur[w], L, retry[w], "none", FALSE)
    ELSE IF w = "fetch_assets" THEN Exit(w)
    ELSE Continue(w)

\* where a worker goes when its fetch call returned None (the `while ... is
\* None:` loops) and when _auth.run() has returned
fetch_none_pc_continue == "recv"

fetch_none_pc_noauth == "fetch"

fetch_none_pc == "auth"

auth_done_pc(w) == IF w = "fetch_chart_values" THEN "parse" ELSE "fetch"

\* a fetch call of worker w returned None
FetchNone(w) ==
    /\ Ctl(w, fetch_none_pc, cur[w], out[w], TRUE, "none", FALSE)
    /\ auth_runs' = [auth_runs EXCEPT ![w] = 0]
    /\ UNCHANGED <<values, skipped, store, parsed>>

\* a chart row that is merged without its dimension entities
DimensionMerges_not_merged(chart) == <<>>

\* parse_chart, lines 325-342: the dimension rows it merges for a chart, in
\* the order of the merges
DimensionMerges(chart) ==
    LET roles == <<"miner", "fromMiner", "toMiner", "market", "exchange",
                   "fromExchange", "toExchange", "fromBank", "symbol">>
        present == SelectSeq(roles, LAMBDA r : chart[r] # None)
        entity(r) ==
            CASE r \in {"miner", "fromMiner", "toMiner"} -> "Miner"
              [] r = "market" -> "Market"
              [] r \in {"exchange", "fromExchange", "toExchange"} ->
                     "Exchange"
              [] r = "fromBank" -> "Bank"
              [] r = "symbol" -> "Symbol"
    IN [i \in 1..Len(present) |->
          <<entity(present[i]), <<chart[present[i]]>> >>]

\* the rows a parse function merges for an item before its one commit, in
\* the order of the Session.merge calls
Merges(fn, item) ==
    CASE fn = "parse_asset" -> << <<"Asset", item>> >>
      [] fn = "parse_category" -> << <<"MetricCategory", <<item[2]>> >> >>
      [] fn = "parse_metric" ->
             << <<"Metric", Tail(item)>>, <<"AssetMetric", item>> >>
      [] fn = "parse_metric_fields" ->
             << <<"AssetMetric", item>> >>
                \o [f \in 1..Len(CatalogMetric.metricFields) |->
                      <<"AssetMetricField", item \o <<f>> >>]
      [] fn = "parse_chart" ->
             DimensionMerges(CatalogChart(item[4]))
                \o << <<"AssetMetricChart", item>> >>
      [] fn = "parse_chart_value" ->
             << <<"AssetMetricChartValue", SubSeq(item, 1, 4)>> >>

\* the catalog is the same whenever an item is parsed again: the parse of
\* an item that was skipped before skips it, of one that was persisted
\* before persists it
Skip(fn, item) ==
    /\ <<fn, item>> \notin parsed
    /\ skipped' = skipped \cup {<<fn, item>>}
    /\ UNCHANGED <<store, parsed>>

\* merge the rows and commit
Persist(fn, item) ==
    /\ <<fn, item>> \notin skipped
    /\ store' = store \cup Range(Merges(fn, item))
    /\ parsed' = parsed \cup {<<fn, item>>}
    /\ UNCHANGED skipped

StreamFrame ==
    UNCHANGED <<self, outerVars, filterVars, orch, authVars, pass, first>>

\* a step that uses a session: it says what becomes of `scoped`
SessionFrame == StreamFrame /\ UNCHANGED <<buffer, sends, receives, log>>

Frame == SessionFrame /\ UNCHANGED scoped

\* async_scoped_session with scopefunc=current_task: the first use of
\* self._Session in a task registers a session for the task
Session(s, w) == [s EXCEPT ![w] = TRUE]

\* await self._Session.remove(): close and forget the task's session
Session_remove(s, w) == [s EXCEPT ![w] = FALSE]

(***************************************************************************)
(* CryptoQuantChart.fetch: the orchestrator.                               *)
(***************************************************************************)
PipeInit ==
    /\ PipeIdle
    /\ AuthIdle
    /\ self \in PipeFilters
    /\ metric = [charts |-> <<>>, metricFields |-> <<>>]
    /\ fpc = "listing"
    /\ passed = <<>>
    /\ sent = <<>>

\* lines 237-305: create the streams and start the six workers
fetch ==
    /\ orch = "idle"
    /\ orch' = "running"
    /\ pc' = [w \in WorkerSet |->
                IF w = "fetch_assets" THEN "fetch" ELSE "recv"]
    /\ UNCHANGED <<self, outerVars, filterVars, scoped, cur, out, values,
                   sender_closed,
                   receiver_closed, error, retry, auth_runs, skipped, store,
                   parsed,
                   authVars, buffer, sends, receives,
                   log, pass, first>>

\* the task group: once a worker has raised, every worker still running
\* is cancelled at its await and leaves its `async with`.  No worker takes
\* a step between two cancellations, so their order is not observable:
\* the workers are ended in the order in which fetch() has started them.
cancel(w) ==
    /\ orch = "running"
    /\ Aborting
    /\ pc[w] \notin Ended
    /\ \A i, j \in 1..Len(Workers) :
          (i < j /\ Workers[j] = w) => pc[Workers[i]] \in Ended
    /\ Ctl(w, "cancelled", <<>>, <<>>, retry[w], "Cancelled", TRUE)
    /\ UNCHANGED <<values, auth_runs, skipped, store, parsed>>
    /\ Frame

\* a fetch() that goes on to the settle delay once fetch_assets has ended
join_after_fetch_assets ==
    /\ orch = "running"
    /\ pc["fetch_assets"] \in Ended
    /\ orch' = IF Aborting THEN "raised" ELSE "settle"
    /\ UNCHANGED <<self, outerVars, filterVars, scoped, pc, cur, out, values,
                   sender_closed,
                   receiver_closed, error, retry, auth_runs, skipped, store,
                   parsed,
                   authVars, buffer, sends, receives,
                   log, pass, first>>

\* lines 253-305: the task group is left when all workers have ended; it
\* re-raises when one of them raised
join ==
    /\ orch = "running"
    /\ \A w \in WorkerSet : pc[w] \in Ended
    /\ orch' = IF Aborting THEN "raised" ELSE "settle"
    /\ UNCHANGED <<self, outerVars, filterVars, scoped, pc, cur, out, values,
                   sender_closed,
                   receiver_closed, error, retry, auth_runs, skipped, store,
                   parsed,
                   authVars, buffer, sends, receives,
                   log, pass, first>>

\* lines 306-307: await asleep(1), then the completion log
settle ==
    /\ orch = "settle"
    /\ orch' = "returned"
    /\ UNCHANGED <<self, outerVars, filterVars, scoped, pc, cur, out, values,
                   sender_closed,
                   receiver_closed, error, retry, auth_runs, skipped, store,
                   parsed,
                   authVars, buffer, sends, receives,
                   log, pass, first>>

(***************************************************************************)
(* The memory object streams.                                              *)
(***************************************************************************)
\* lines 237-252: create_memory_object_stream(0, item_type)
max_buffer_size_assets == MaxAssets

max_buffer_size == 0

\* the sender u after its send has completed: it runs on to its next await
SendDone(u) ==
    LET rest == Tail(out[u])
        more == rest # <<>>
        leave == ~more /\ u = "fetch_assets"
    IN [pc |-> IF more THEN "send" ELSE IF leave THEN "done" ELSE "recv",
        cur |-> IF more THEN cur[u] ELSE <<>>,
        out |-> rest,
        retry |-> IF more \/ leave THEN retry[u] ELSE FALSE,
        leave |-> leave]

\* the stream between worker u and worker d: a send of u meets the receive
\* of d, and d takes the item; or u's send finds no receiver waiting and
\* room in the buffer; or d's receive finds an item in the buffer
send_receive(u, d) ==
    /\ Running
    /\ Out(u) = In(d)
    /\ In(d) # ""
    /\ ~receiver_closed[In(d)]
    /\ LET st == In(d)
           s == SendDone(u)
       IN \/ /\ pc[u] = "send"
             /\ pc[d] = "recv"
             /\ buffer[st] = <<>>
             /\ pc' = [pc EXCEPT ![d] = "parse", ![u] = s.pc]
             /\ cur' = [cur EXCEPT ![d] = Head(out[u]), ![u] = s.cur]
             /\ out' = [out EXCEPT ![u] = s.out]
             /\ retry' = [retry EXCEPT ![u] = s.retry]
             /\ sender_closed' =
                   [x \in Streams |->
                       sender_closed[x] \/ (s.leave /\ x = Out(u))]
             /\ values' = IF d = "fetch_chart_values" THEN Head(out[u])[5]
                          ELSE values
             /\ sends' = [sends EXCEPT ![st] = @ + 1]
             /\ receives' = [receives EXCEPT ![st] = @ + 1]
             /\ log' = [log EXCEPT ![st] = Append(@, Head(out[u]))]
             /\ UNCHANGED buffer
          \/ /\ pc[u] = "send"
             /\ pc[d] # "recv"
             /\ Len(buffer[st]) < max_buffer_size
             /\ pc' = [pc EXCEPT ![u] = s.pc]
             /\ cur' = [cur EXCEPT ![u] = s.cur]
             /\ out' = [out EXCEPT ![u] = s.out]
             /\ retry' = [retry EXCEPT ![u] = s.retry]
             /\ sender_closed' =
                   [x \in Streams |->
                       sender_closed[x] \/ (s.leave /\ x = Out(u))]
             /\ buffer' = [buffer EXCEPT ![st] = Append(@, Head(out[u]))]
             /\ sends' = [sends EXCEPT ![st] = @ + 1]
             /\ log' = [log EXCEPT ![st] = Append(@, Head(out[u]))]
             /\ UNCHANGED <<values, receives>>
          \/ /\ pc[d] = "recv"
             /\ buffer[st] # <<>>
             /\ pc' = [pc EXCEPT ![d] = "parse"]
             /\ cur' = [cur EXCEPT ![d] = Head(buffer[st])]
             /\ values' = IF d = "fetch_chart_values"
                          THEN Head(buffer[st])[5] ELSE values
             /\ buffer' = [buffer EXCEPT ![st] = Tail(@)]
             /\ receives' = [receives EXCEPT ![st] = @ + 1]
             /\ UNCHANGED <<out, retry, sender_closed, sends, log>>
    /\ UNCHANGED <<receiver_closed, error, auth_runs, skipped, store, parsed>>
    /\ StreamFrame
    /\ UNCHANGED scoped

\* `async for` of worker d ends: the send end is closed
end_of_stream(d) ==
    /\ Running
    /\ d # "fetch_assets"
    /\ pc[d] = "recv"
    /\ sender_closed[In(d)]
    /\ buffer[In(d)] = <<>>
    /\ Exit(d)
    /\ UNCHANGED <<values, auth_runs, skipped, store, parsed>>
    /\ Frame

\* a send of worker u finds the receive end closed: BrokenResourceError
send_broken(u) ==
    /\ Running
    /\ pc[u] = "send"
    /\ receiver_closed[Out(u)]
    /\ Raise(u, "BrokenResourceError")
    /\ UNCHANGED <<values, auth_runs, skipped, store, parsed>>
    /\ Frame

\* lines 319, 355, 447, 632, 665: await self._auth.run() returns; the
\* authenticator reads and writes through the same scoped session, which
\* lines 320, 356, 448, 633, 666 remove
run_auth(w) ==
    /\ Running
    /\ pc[w] = "auth"
    /\ Goto(w, auth_done_pc(w))
    /\ auth_runs' = [auth_runs EXCEPT
                        ![w] = IF @ < MaxAuthRuns THEN @ + 1 ELSE @]
    /\ UNCHANGED <<values, skipped, store, parsed>>
    /\ scoped' = Session_remove(Session(scoped, w), w)
    /\ SessionFrame

\* await self._auth.run() raises: a run that succeeds on the header token
\* merges a credential with refresh_token '' (authorization lines 96-117),
\* which the check constraint of service.authorization rejects
run_auth_raise(w) ==
    /\ Running
    /\ pc[w] = "auth"
    /\ Raise(w, "IntegrityError")
    /\ UNCHANGED <<values, auth_runs, skipped, store, parsed>>
    /\ scoped' = Session(scoped, w)
    /\ SessionFrame

(***************************************************************************)
(* The worker coroutines, one action per step between two awaits.          *)
(***************************************************************************)
\* fetch_assets, lines 316-333
fetch_assets_call ==
    LET w == "fetch_assets" IN
    /\ Running
    /\ pc[w] = "fetch"
    /\ \/ FetchNone(w)
       \/ /\ Emit(w, Allowed(self.assets, Listing(<<>>)))
          /\ auth_runs' = [auth_runs EXCEPT ![w] = 0]
          /\ UNCHANGED <<values, skipped, store, parsed>>
    /\ Frame

\* fetch_categories, lines 344-348
parse_asset ==
    LET w == "fetch_categories" IN
    /\ Running
    /\ pc[w] = "parse"
    /\ \/ /\ Continue(w)
          /\ Skip("parse_asset", cur[w])
       \/ /\ Goto(w, "fetch")
          /\ Persist("parse_asset", cur[w])
    /\ UNCHANGED <<values, auth_runs>>
    /\ scoped' = Session_remove(Session(scoped, w), w)
    /\ SessionFrame

\* fetch_categories, lines 350-374
fetch_metrics_call ==
    LET w == "fetch_categories" IN
    /\ Running
    /\ pc[w] = "fetch"
    /\ \/ FetchNone(w)
       \/ /\ Emit(w, Allowed(self.categories, Listing(cur[w])))
          /\ auth_runs' = [auth_runs EXCEPT ![w] = 0]
          /\ UNCHANGED <<values, skipped, store, parsed>>
    /\ Frame

\* fetch_metrics, lines 389-416
parse_category ==
    LET w == "fetch_metrics" IN
    /\ Running
    /\ pc[w] = "parse"
    /\ \/ /\ Continue(w)
          /\ Skip("parse_category", cur[w])
       \/ /\ Emit(w, Allowed(self.metrics, Listing(cur[w])))
          /\ Persist("parse_category", cur[w])
    /\ UNCHANGED <<values, auth_runs>>
    /\ scoped' = Session_remove(Session(scoped, w), w)
    /\ SessionFrame

\* fetch_charts, lines 431-440
parse_metric ==
    LET w == "fetch_charts" IN
    /\ Running
    /\ pc[w] = "parse"
    /\ \/ /\ Continue(w)
          /\ Skip("parse_metric", cur[w])
       \/ /\ Goto(w, "fetch")
          /\ Persist("parse_metric", cur[w])
    /\ UNCHANGED <<values, auth_runs>>
    /\ scoped' = Session_remove(Session(scoped, w), w)
    /\ SessionFrame

\* fetch_charts, lines 442-448
fetch_charts_call ==
    LET w == "fetch_charts" IN
    /\ Running
    /\ pc[w] = "fetch"
    /\ \/ FetchNone(w)
       \/ /\ Goto(w, "fields")
          /\ auth_runs' = [auth_runs EXCEPT ![w] = 0]
          /\ UNCHANGED <<values, skipped, store, parsed>>
    /\ Frame

\* fetch_charts, lines 450-597: parse_metric_fields, then the filter loop;
\* when parse_metric_fields returned None, line 489 iterates None
parse_metric_fields ==
    LET w == "fetch_charts" IN
    /\ Running
    /\ pc[w] = "fields"
    /\ \/ /\ Raise(w, "TypeError")
          /\ Skip("parse_metric_fields", cur[w])
       \/ /\ Emit(w, ChartItems(self, cur[w]))
          /\ Persist("parse_metric_fields", cur[w])
    /\ UNCHANGED <<values, auth_runs>>
    /\ scoped' = Session_remove(Session(scoped, w), w)
    /\ SessionFrame

\* fetch_chart, lines 617-625: `break` when parse_chart returned None
parse_chart_none(w) == Exit(w)

parse_chart ==
    LET w == "fetch_chart" IN
    /\ Running
    /\ pc[w] = "parse"
    /\ \/ /\ parse_chart_none(w)
          /\ Skip("parse_chart", cur[w])
       \/ /\ Goto(w, "fetch")
          /\ Persist("parse_chart", cur[w])
    /\ UNCHANGED <<values, auth_runs>>
    /\ scoped' = Session_remove(Session(scoped, w), w)
    /\ SessionFrame

\* fetch_chart, lines 627-642: the value map may be empty
fetch_chart_call ==
    LET w == "fetch_chart" IN
    /\ Running
    /\ pc[w] = "fetch"
    /\ \/ FetchNone(w)
       \/ /\ \E v \in {"rows", "empty"} : Emit(w, <<cur[w] \o <<v>> >>)
          /\ auth_runs' = [auth_runs EXCEPT ![w] = 0]
          /\ UNCHANGED <<values, skipped, store, parsed>>
    /\ Frame

\* fetch_chart_values, lines 660-666: parse_chart_value returns None for an
\* empty (or None) value map, and for an invalid or conflicting row; the
\* walrus then leaves None in `values` for the next call.  An empty map
\* returns before the session is used; no line removes the session after
\* a parse that has persisted
parse_chart_value ==
    LET w == "fetch_chart_values" IN
    /\ Running
    /\ pc[w] = "parse"
    /\ \/ /\ Goto(w, "auth")
          /\ values' = None
          /\ Skip("parse_chart_value", cur[w])
          /\ scoped' = IF values = "rows" THEN Session(scoped, w) ELSE scoped
       \/ /\ values = "rows"
          /\ Continue(w)
          /\ values' = None
          /\ Persist("parse_chart_value", cur[w])
          /\ scoped' = Session(scoped, w)
    /\ UNCHANGED auth_runs
    /\ SessionFrame

(***************************************************************************)
(* The pipeline specification.                                             *)
(***************************************************************************)
Next ==
    \/ fetch
    \/ fetch_assets_call
    \/ parse_asset
    \/ fetch_metrics_call
    \/ parse_category
    \/ parse_metric
    \/ fetch_charts_call
    \/ parse_metric_fields
    \/ parse_chart
    \/ fetch_chart_call
    \/ parse_chart_value
    \/ \E w \in WorkerSet : run_auth(w)
    \/ \E w \in WorkerSet : run_auth_raise(w)
    \/ \E u, d \in WorkerSet : send_receive(u, d)
    \/ \E d \in WorkerSet : end_of_stream(d)
    \/ \E u \in WorkerSet : send_broken(u)
    \/ \E w \in WorkerSet : cancel(w)
    \/ join
    \/ settle

Spec == PipeInit /\ [][Next]_vars

(***************************************************************************)
(* Two runs of fetch() on the same catalog and the same allow-lists.       *)
(***************************************************************************)
\* allow-lists that select the first and the last listed asset and the
\* first category and metric of each
RerunFilter ==
    [NoFilter EXCEPT !.assets = <<1, MaxAssets>>,
                     !.categories = <<1>>,
                     !.metrics = <<1>>]

RerunInit ==
    /\ PipeIdle
    /\ AuthIdle
    /\ self = RerunFilter
    /\ metric = [charts |-> <<>>, metricFields |-> <<>>]
    /\ fpc = "listing"
    /\ passed = <<>>
    /\ sent = <<>>

\* fetch() has returned or raised and is called a second time: new streams
\* and new tasks, the same store and the same catalog
rerun ==
    /\ orch \in {"returned", "raised"}
    /\ pass = 1
    /\ pass' = 2
    /\ first' = store
    /\ orch' = "idle"
    /\ pc' = [w \in WorkerSet |-> "unstarted"]
    /\ cur' = [w \in WorkerSet |-> <<>>]
    /\ out' = [w \in WorkerSet |-> <<>>]
    /\ values' = None
    /\ sender_closed' = [st \in Streams |-> FALSE]
    /\ receiver_closed' = [st \in Streams |-> FALSE]
    /\ error' = [w \in WorkerSet |-> "none"]
    /\ retry' = [w \in WorkerSet |-> FALSE]
    /\ auth_runs' = [w \in WorkerSet |-> 0]
    /\ buffer' = [st \in Streams |-> <<>>]
    /\ sends' = [st \in Streams |-> 0]
    /\ receives' = [st \in Streams |-> 0]
    /\ log' = [st \in Streams |-> <<>>]
    /\ scoped' = [w \in WorkerSet |-> FALSE]
    /\ UNCHANGED <<self, outerVars, filterVars, authVars, skipped, store,
                   parsed>>

RerunNext == Next \/ rerun

SpecRerun == RerunInit /\ [][RerunNext]_vars

(***************************************************************************)
(* One call of a parse function (lib/chart/parse.py) and the transaction   *)
(* of its session, one action per await.                                   *)
(***************************************************************************)
\* the parse functions that merge rows and catch IntegrityError
ParseFns ==
    {"parse_asset", "parse_category", "parse_metric", "parse_metric_fields",
     "parse_chart"}

\* the catalog items a parse function is called with
ParseItems(fn) ==
    LET assets == {<<a>> : a \in 1..MaxAssets}
        categories == {<<a, c>> : a \in 1..MaxAssets, c \in 1..MaxCategories}
        metrics == {i \o <<m>> : i \in categories, m \in 1..MaxMetrics}
    IN CASE fn = "parse_asset" -> assets
         [] fn = "parse_category" -> categories
         [] fn \in {"parse_metric", "parse_metric_fields"} -> metrics
         [] fn = "parse_chart" ->
                {i \o <<k>> : i \in metrics, k \in 1..MaxMetricCharts}

\* the rows the stages before fn have committed when the item reaches fn
Committed(fn, item) ==
    LET rows(f, i) == Range(Merges(f, i))
    IN CASE fn = "parse_asset" -> {}
         [] fn = "parse_category" -> rows("parse_asset", SubSeq(item, 1, 1))
         [] fn = "parse_metric" ->
                rows("parse_asset", SubSeq(item, 1, 1))
                   \cup rows("parse_category", SubSeq(item, 1, 2))
         [] fn = "parse_metric_fields" ->
                rows("parse_asset", SubSeq(item, 1, 1))
                   \cup rows("parse_category", SubSeq(item, 1, 2))
                   \cup rows("parse_metric", item)
         [] fn = "parse_chart" ->
                rows("parse_asset", SubSeq(item, 1, 1))
                   \cup rows("parse_category", SubSeq(item, 1, 2))
                   \cup rows("parse_metric", SubSeq(item, 1, 3))
                   \cup rows("parse_metric_fields", SubSeq(item, 1, 3))

\* a parse function is called with an item that is valid, invalid or
\* conflicts with a constraint of the database; the store holds what the
\* earlier stages have committed and any of the rows of the item itself
\* (from an earlier run, or shared with another item)
ParseInit ==
    /\ StreamsIdle
    /\ MainIdle
    /\ AuthIdle
    /\ self = NoFilter
    /\ metric = [charts |-> <<>>, metricFields |-> <<>>]
    /\ fpc = "listing"
    /\ passed = <<>>
    /\ sent = <<>>
    /\ \E fn \in ParseFns :
       \E item \in ParseItems(fn) :
       \E outcome \in {"valid", "invalid", "conflict"} :
       \E own \in SUBSET Range(Merges(fn, item)) :
          /\ store = Committed(fn, item) \cup own
          /\ txn = [fn |-> fn, item |-> item, outcome |-> outcome,
                    begin |-> store, pc |-> "construct", todo |-> <<>>,
                    pending |-> {}, result |-> None]

ParseFrame ==
    UNCHANGED <<self, filterVars, authVars, orch, pc, cur, out, values,
                sender_closed, receiver_closed, error, retry, auth_runs,
                skipped, parsed, buffer, sends, receives, log, pass, first,
                scoped, mainVars, stage, decode>>

\* the first `try` of a parse function: build the entities from the item,
\* `return logger.info(...)` when the item is invalid
construct ==
    /\ txn.pc = "construct"
    /\ txn' = IF txn.outcome = "invalid"
              THEN [txn EXCEPT !.pc = "returned", !.result = "skip"]
              ELSE [txn EXCEPT !.pc = "merge",
                               !.todo = Merges(txn.fn, txn.item)]
    /\ UNCHANGED store
    /\ ParseFrame

\* a session whose merge writes the row to the database at once
Session_merge_autocommit(db, pending, row) ==
    [db |-> db \cup {row}, pending |-> pending]

\* Session.merge: the row is pending in the transaction of the session
Session_merge(db, pending, row) ==
    [db |-> db, pending |-> pending \cup {row}]

\* `await Session.merge(...)` of the next row; the flush it causes raises
\* IntegrityError when a pending row conflicts
merge_row ==
    /\ txn.pc = "merge"
    /\ txn.todo # <<>>
    /\ \/ LET m == Session_merge(store, txn.pending, Head(txn.todo))
          IN /\ store' = m.db
             /\ txn' = [txn EXCEPT !.pending = m.pending,
                                   !.todo = Tail(txn.todo)]
       \/ /\ txn.outcome = "conflict"
          /\ txn' = [txn EXCEPT !.pc = "rollback"]
          /\ UNCHANGED store
    /\ ParseFrame

\* `await Session.commit()`: the pending rows are written together, or
\* IntegrityError is raised
commit ==
    /\ txn.pc = "merge"
    /\ txn.todo = <<>>
    /\ IF txn.outcome = "conflict"
       THEN /\ txn' = [txn EXCEPT !.pc = "rollback"]
            /\ UNCHANGED store
       ELSE /\ store' = store \cup txn.pending
            /\ txn' = [txn EXCEPT !.pc = "returned", !.pending = {},
                                  !.result = "entity"]
    /\ ParseFrame

\* `except IntegrityError: ... return await Session.rollback()`
rollback ==
    /\ txn.pc = "rollback"
    /\ txn' = [txn EXCEPT !.pc = "returned", !.pending = {},
                          !.result = "skip"]
    /\ UNCHANGED store
    /\ ParseFrame

ParseNext == construct \/ merge_row \/ commit \/ rollback

SpecParse == ParseInit /\ [][ParseNext]_vars

(***************************************************************************)
(* main (bin/main.py), CryptoQuant.run (lib/__init__.py) and               *)
(* CryptoQuantChart.run / get_charts (lib/chart/__init__.py).              *)
(***************************************************************************)
MaxConfigs == 2

MaxLoaded == 2

MaxAssetMetrics == 2

MaxValueRows == 1

\* the fields of every asset-metric in the database, in their order
DbFields == <<"a", "b", "c">>

\* a value row has one component per field: component k stands for the
\* value of field k
DbValue == [k \in 1..Len(DbFields) |-> k]

\* command-line configurations: `predict` and `force` are "True", "False"
\* or absent; the configurations with --from-miner have no --field
Config ==
    {c \in [predict : {"True", "False", None},
            force : {"True", None},
            fields : {{}, {"a"}},
            from_miners : {{}, {"m"}}] :
        c.from_miners # {} => c.fields = {}}

Configs == UNION {[1..n -> Config] : n \in 0..MaxConfigs}

\* the charts a select of get_charts returns, with their value rows
Tables ==
    UNION {[1..n -> [metric : 1..MaxAssetMetrics,
                     values : {[r \in 1..m |-> DbValue] :
                                  m \in 0..MaxValueRows}]] :
             n \in 0..MaxLoaded}

\* CryptoQuantChart.__init__, lines 109-118: `x if isinstance(x, bool)
\* else False`
OrFalse(x) == IF x \in {"True", "False"} THEN x = "True" ELSE FALSE

\* main.py lines 223-245, for one configuration
CryptoQuantChart(config) ==
    [predict |-> OrFalse(config.predict), force |-> OrFalse(config.force),
     fields |-> config.fields, from_miners |-> config.from_miners]

\* a check that fails as soon as one chart is not for prediction
no_predict_any(charts) ==
    \E i \in 1..Len(charts) : ~charts[i].predict

\* main.py line 246: all(not chart.predict for chart in charts)
no_predict(charts) ==
    \A i \in 1..Len(charts) : ~charts[i].predict

MainInit ==
    /\ StreamsIdle
    /\ store = {}
    /\ txn = NoTxn
    /\ AuthIdle
    /\ self = NoFilter
    /\ metric = [charts |-> <<>>, metricFields |-> <<>>]
    /\ fpc = "listing"
    /\ passed = <<>>
    /\ sent = <<>>
    /\ configs \in Configs
    /\ table \in Tables
    /\ main = [NoMain EXCEPT !.pc = "start"]
    /\ requests = 0
    /\ auth_calls = 0
    /\ loaded = NoLoad

MainFrame ==
    UNCHANGED <<self, filterVars, pipeVars, authVars, txn, configs, stage,
                decode>>

\* main.py lines 220-245: build the authenticator and the charts
main_construct ==
    /\ main.pc = "start"
    /\ main' = [main EXCEPT
                   !.pc = "check",
                   !.charts = [i \in 1..Len(configs) |->
                                 CryptoQuantChart(configs[i])]]
    /\ UNCHANGED <<requests, auth_calls, table, loaded>>
    /\ MainFrame

\* main.py lines 246-250
main_check ==
    /\ main.pc = "check"
    /\ main' = IF no_predict(main.charts)
               THEN [main EXCEPT !.pc = "raised", !.error = "RuntimeError"]
               ELSE [main EXCEPT !.pc = "run", !.index = 1]
    /\ UNCHANGED <<requests, auth_calls, table, loaded>>
    /\ MainFrame

\* CryptoQuant.run lines 58-62, the next `await chart.run()`, up to line
\* 147 of CryptoQuantChart.run: `if self.force or not (charts := ...)`
chart_run ==
    /\ main.pc = "run"
    /\ main' = IF main.index > Len(main.charts)
               THEN [main EXCEPT !.pc = "returned"]
               ELSE IF main.charts[main.index].force
               THEN [main EXCEPT !.pc = "fetch",
                                 !.run = NewChartRun(table, requests)]
               ELSE [main EXCEPT !.pc = "select", !.phase = 1,
                                 !.run = NewChartRun(table, requests)]
    /\ UNCHANGED <<requests, auth_calls, table, loaded>>
    /\ MainFrame

\* CryptoQuantChart.run line 148: fetch(), by what main observes of it: it
\* requests the catalog, may run the authenticator, may persist a chart,
\* and returns or raises
chart_fetch ==
    /\ main.pc = "fetch"
    /\ requests' = requests + 1
    /\ \E n \in {0, 1} : auth_calls' = auth_calls + n
    /\ \/ UNCHANGED table
       \/ /\ Len(table) < MaxLoaded
          /\ \E c \in [metric : 1..MaxAssetMetrics,
                       values : {[r \in 1..m |-> DbValue] :
                                    m \in 0..MaxValueRows}] :
                table' = Append(table, c)
    /\ \/ main' = [main EXCEPT !.pc = "select", !.phase = 2,
                                !.run.fetched = TRUE]
       \/ main' = [main EXCEPT !.pc = "raised", !.error = "fetch",
                                !.run.fetched = TRUE, !.run.ended = "raised"]
    /\ UNCHANGED loaded
    /\ MainFrame

\* get_charts lines 185-188: `AssetMetricChart.from_miner.in_(...)` is
\* evaluated when the chart has from_miners; from_miner is a
\* relationship() (asset_metric_chart.py lines 85-90), whose comparator
\* raises NotImplementedError for in_
in_(from_miners) ==
    IF from_miners = {} THEN "criterion" ELSE "NotImplementedError"

\* get_charts lines 158-219: the select; the charts of one asset-metric
\* load the same AssetMetric object and its one list of fields
get_charts_select ==
    /\ main.pc = "select"
    /\ IF in_(main.charts[main.index].from_miners) = "NotImplementedError"
       THEN /\ main' = [main EXCEPT !.pc = "raised",
                                    !.error = "NotImplementedError",
                                    !.run.ended = "raised"]
            /\ UNCHANGED loaded
       ELSE /\ loaded' = [charts |-> table,
                          fields |-> [m \in 1..MaxAssetMetrics |-> DbFields],
                          i |-> 1]
            /\ main' = [main EXCEPT
                           !.pc = IF main.charts[main.index].fields = {}
                                  THEN "loaded" ELSE "pop",
                           !.run.session = "open"]
    /\ UNCHANGED <<requests, auth_calls, table>>
    /\ MainFrame

\* list.pop(index), index counted from 1
Pop(seq, index) ==
    [j \in 1..(Len(seq) - 1) |-> IF j < index THEN seq[j] ELSE seq[j + 1]]

RECURSIVE PopAll(_, _)
PopAll(seq, indexes) ==
    IF indexes = <<>> THEN seq
    ELSE PopAll(Pop(seq, Head(indexes)), Tail(indexes))

\* lines 221-227: the indexes of the fields that are not in F, last first
RECURSIVE pop_indexes(_, _, _)
pop_indexes(fields, F, i) ==
    IF i = 0 THEN <<>>
    ELSE (IF fields[i] \notin F THEN <<i>> ELSE <<>>)
            \o pop_indexes(fields, F, i - 1)

\* get_charts lines 220-232, one iteration of `for chart in charts`
get_charts_pop ==
    /\ main.pc = "pop"
    /\ IF loaded.i > Len(loaded.charts)
       THEN /\ main' = [main EXCEPT !.pc = "loaded"]
            /\ UNCHANGED loaded
       ELSE LET chart == loaded.charts[loaded.i]
                fields == loaded.fields[chart.metric]
                indexes == pop_indexes(fields,
                                       main.charts[main.index].fields,
                                       Len(fields))
            IN /\ loaded' =
                    [loaded EXCEPT
                        !.fields[chart.metric] = PopAll(fields, indexes),
                        !.charts[loaded.i].values =
                            [r \in 1..Len(chart.values) |->
                                PopAll(chart.values[r], indexes)],
                        !.i = loaded.i + 1]
               /\ UNCHANGED main
    /\ UNCHANGED <<requests, auth_calls, table>>
    /\ MainFrame

\* CryptoQuantChart.run lines 147-155: the first get_charts has returned
\* no chart and fetch() is called, or the charts are returned
chart_return ==
    /\ main.pc = "loaded"
    /\ IF main.phase = 1 /\ loaded.charts = <<>>
       THEN main' = [main EXCEPT !.pc = "fetch"]
       ELSE main' = [main EXCEPT !.pc = "run", !.index = main.index + 1,
                                 !.run.session = "removed",
                                 !.run.ended = "returned",
                                 !.run.read = main.phase,
                                 !.run.result = loaded.charts]
    /\ loaded' = NoLoad
    /\ UNCHANGED <<requests, auth_calls, table>>
    /\ MainFrame

MainNext ==
    \/ main_construct
    \/ main_check
    \/ chart_run
    \/ chart_fetch
    \/ get_charts_select
    \/ get_charts_pop
    \/ chart_return

SpecMain == MainInit /\ [][MainNext]_vars

(***************************************************************************)
(* One stage of fetch() with n workers: the loop `for index in range(1)`   *)
(* of lines 266-272 taken with range(n).  Every worker is started with     *)
(* the same asset_receiver and the same category_sender object, and every  *)
(* worker runs `async with asset_receiver, category_sender` (line 342).    *)
(* The stage before it sends `todo` items and closes its sender.           *)
(***************************************************************************)
MaxWorkers == 3

MaxItems == 2

StageEnded == {"done", "failed", "cancelled"}

StageInit ==
    /\ QueuesIdle
    /\ decode = NoDecode
    /\ store = {}
    /\ txn = NoTxn
    /\ MainIdle
    /\ AuthIdle
    /\ self = NoFilter
    /\ metric = [charts |-> <<>>, metricFields |-> <<>>]
    /\ fpc = "listing"
    /\ passed = <<>>
    /\ sent = <<>>
    /\ \E n \in 1..MaxWorkers, t \in 0..MaxItems :
          stage = [NoStage EXCEPT
                      !.n = n, !.todo = t,
                      !.pc = [i \in 1..n |-> "unstarted"],
                      !.error = [i \in 1..n |-> "none"]]

StageFrame ==
    UNCHANGED <<self, filterVars, pipeVars, authVars, txn, mainVars, decode>>

\* fetch() lines 266-272: tg.start_soon(self.fetch_categories,
\* asset_receiver, category_sender, index) for each index
stage_start ==
    /\ stage.n > 0
    /\ \A i \in 1..stage.n : stage.pc[i] = "unstarted"
    /\ stage' = [stage EXCEPT !.pc = [i \in 1..stage.n |-> "recv"]]
    /\ StageFrame

\* worker i leaves `async with asset_receiver, category_sender` (line
\* 342), normally or with exception e: __aexit__ closes the two stream
\* objects, which are the ones its siblings use
Leave(i, e) ==
    [stage EXCEPT !.pc[i] = IF e = "none" THEN "done" ELSE "failed",
                  !.error[i] = e,
                  !.receiver_closed = TRUE,
                  !.sender_closed = TRUE]

\* line 343, `async for asset in asset_receiver`: receive() raises
\* ClosedResourceError on a closed stream object, ends the loop when no
\* sender is open, and otherwise waits for the item of a sender
stage_receive(i) ==
    /\ i \in 1..stage.n
    /\ stage.pc[i] = "recv"
    /\ ~ \E j \in 1..stage.n : stage.pc[j] = "failed"
    /\ IF stage.receiver_closed
       THEN stage' = Leave(i, "ClosedResourceError")
       ELSE IF stage.upstream = "closed"
       THEN stage' = Leave(i, "none")
       ELSE stage' = [stage EXCEPT !.pc[i] = "waiting"]
    /\ StageFrame

\* the stage before hands an item to a worker that waits in receive()
stage_deliver(i) ==
    /\ i \in 1..stage.n
    /\ stage.pc[i] = "waiting"
    /\ ~ \E j \in 1..stage.n : stage.pc[j] = "failed"
    /\ stage.upstream = "open"
    /\ stage.todo > 0
    /\ ~stage.receiver_closed
    /\ stage' = [stage EXCEPT !.pc[i] = "parse", !.todo = @ - 1]
    /\ StageFrame

\* the stage before has sent its last item and leaves its `async with`
upstream_close ==
    /\ stage.n > 0
    /\ \A i \in 1..stage.n : stage.pc[i] # "unstarted"
    /\ stage.upstream = "open"
    /\ stage.todo = 0
    /\ stage' = [stage EXCEPT !.upstream = "closed"]
    /\ StageFrame

\* a worker that waits in receive() when the last sender closes is woken
\* with EndOfStream: its `async for` ends and it leaves the `async with`
stage_wake(i) ==
    /\ i \in 1..stage.n
    /\ stage.pc[i] = "waiting"
    /\ ~ \E j \in 1..stage.n : stage.pc[j] = "failed"
    /\ stage.upstream = "closed"
    /\ stage' = Leave(i, "none")
    /\ StageFrame

\* lines 344-357: parse_asset and fetch_metrics for the item
stage_work(i) ==
    /\ i \in 1..stage.n
    /\ stage.pc[i] = "parse"
    /\ ~ \E j \in 1..stage.n : stage.pc[j] = "failed"
    /\ stage' = [stage EXCEPT !.pc[i] = "send"]
    /\ StageFrame

\* lines 361, 374: category_sender.send(...): send() raises
\* ClosedResourceError on a closed stream object
stage_send(i) ==
    /\ i \in 1..stage.n
    /\ stage.pc[i] = "send"
    /\ ~ \E j \in 1..stage.n : stage.pc[j] = "failed"
    /\ stage.downstream = "recv"
    /\ stage' = IF stage.sender_closed
                THEN Leave(i, "ClosedResourceError")
                ELSE [stage EXCEPT !.pc[i] = "recv", !.sent = @ + 1]
    /\ StageFrame

\* the task group cancels the workers that still run when one has raised
stage_cancel(i) ==
    /\ i \in 1..stage.n
    /\ stage.pc[i] \notin StageEnded
    /\ \E j \in 1..stage.n : stage.pc[j] = "failed"
    /\ stage' = [stage EXCEPT !.pc[i] = "cancelled",
                              !.receiver_closed = TRUE,
                              !.sender_closed = TRUE]
    /\ StageFrame

\* line 388 of the next stage: its receive() ends the loop when
\* category_sender, the only send object of the stream, is closed
downstream_end ==
    /\ stage.downstream = "recv"
    /\ stage.sender_closed
    /\ stage' = [stage EXCEPT !.downstream = "ended"]
    /\ StageFrame

StageNext ==
    \/ stage_start
    \/ upstream_close
    \/ downstream_end
    \/ \E i \in 1..MaxWorkers : stage_receive(i)
    \/ \E i \in 1..MaxWorkers : stage_deliver(i)
    \/ \E i \in 1..MaxWorkers : stage_wake(i)
    \/ \E i \in 1..MaxWorkers : stage_work(i)
    \/ \E i \in 1..MaxWorkers : stage_send(i)
    \/ \E i \in 1..MaxWorkers : stage_cancel(i)

SpecStage == StageInit /\ [][StageNext]_vars

(***************************************************************************)
(* The values of one chart: fetch_chart (lib/chart/fetch.py) decodes the   *)
(* response, parse_chart_value (lib/chart/parse.py) inserts the rows.      *)
(***************************************************************************)
MaxTuples == 2

MaxComponents == 2

\* the number tokens of a response, and null
Tokens == {"12.5", "3.25", "null"}

\* timestamps of a response, in milliseconds
Timestamps == {1700000000, 1700000500, 1700001000}

\* result.data of a response: tuples [timestamp, v0, v1, ...] with
\* increasing timestamps
Wires ==
    UNION {{w \in [1..n -> [ts : Timestamps,
                            v : UNION {[1..m -> Tokens] :
                                          m \in 1..MaxComponents}]] :
               \A i, j \in 1..n : i < j => w[i].ts < w[j].ts} :
             n \in 0..MaxTuples}

\* fetch.py line 117, simplejson.loads(..., parse_float=Decimal): a number
\* token with a fraction becomes the Decimal of its text; null becomes None
sloads(token) == IF token = "null" THEN Null ELSE <<"Decimal", token>>

\* parse.py line 383, datetime.fromtimestamp(timestamp / 1000): seconds and
\* microseconds
fromtimestamp(ms) == <<ms \div 1000, (ms % 1000) * 1000>>

DecodeInit ==
    /\ QueuesIdle
    /\ stage = NoStage
    /\ store = {}
    /\ txn = NoTxn
    /\ MainIdle
    /\ AuthIdle
    /\ self = NoFilter
    /\ metric = [charts |-> <<>>, metricFields |-> <<>>]
    /\ fpc = "listing"
    /\ passed = <<>>
    /\ sent = <<>>
    /\ \E w \in Wires : decode = [NoDecode EXCEPT !.wire = w]

DecodeFrame ==
    UNCHANGED <<self, filterVars, pipeVars, authVars, txn, mainVars, stage>>

\* fetch.py lines 117-121: `{k: v for k, *v in data}`; the starred target
\* binds v to the list of the components after the first, for every tuple
decode_response ==
    /\ decode.pc = "idle"
    /\ decode' =
          [decode EXCEPT
              !.pc = "fetched",
              !.data = [k \in {decode.wire[i].ts :
                                  i \in 1..Len(decode.wire)} |->
                          LET i == CHOOSE i \in 1..Len(decode.wire) :
                                      decode.wire[i].ts = k
                          IN [j \in 1..Len(decode.wire[i].v) |->
                                sloads(decode.wire[i].v[j])]]]
    /\ DecodeFrame

\* parse.py lines 364-425: `if not item: return None`, else one row
\* [chart id, fromtimestamp(timestamp / 1000), values] for every entry
\* with `values is not None`, inserted with on_conflict_do_nothing.  (The
\* branch of the other dialects merges the same rows one by one.)
insert_values ==
    /\ decode.pc = "fetched"
    /\ decode' =
          IF DOMAIN decode.data = {}
          THEN [decode EXCEPT !.pc = "skipped"]
          ELSE [decode EXCEPT
                   !.pc = "parsed",
                   !.rows = {<<fromtimestamp(k), decode.data[k]>> :
                               k \in {t \in DOMAIN decode.data :
                                         decode.data[t] # Null}}]
    /\ DecodeFrame

DecodeNext == decode_response \/ insert_values

SpecDecode == DecodeInit /\ [][DecodeNext]_vars

(***************************************************************************)
(* Fairness: every runnable worker step is eventually taken, every         *)
(* authenticator run returns and every fetch call that is repeated         *)
(* eventually returns a result.                                            *)
(***************************************************************************)
FetchWorkers == {"fetch_assets", "fetch_categories", "fetch_charts",
                 "fetch_chart"}

FetchCall(w) ==
    CASE w = "fetch_assets" -> fetch_assets_call
      [] w = "fetch_categories" -> fetch_metrics_call
      [] w = "fetch_charts" -> fetch_charts_call
      [] w = "fetch_chart" -> fetch_chart_call

FetchOk(w) == FetchCall(w) /\ pc'[w] # "auth"

Fairness ==
    /\ WF_vars(fetch)
    /\ WF_vars(parse_asset)
    /\ WF_vars(parse_category)
    /\ WF_vars(parse_metric)
    /\ WF_vars(parse_metric_fields)
    /\ WF_vars(parse_chart)
    /\ WF_vars(parse_chart_value)
    /\ \A w \in FetchWorkers : SF_vars(FetchOk(w))
    /\ \A w \in WorkerSet : WF_vars(run_auth(w))
    /\ \A u, d \in WorkerSet : WF_vars(send_receive(u, d))
    /\ \A d \in WorkerSet : WF_vars(end_of_stream(d))
    /\ \A u \in WorkerSet : WF_vars(send_broken(u))
    /\ \A w \in WorkerSet : WF_vars(cancel(w))
    /\ WF_vars(join)
    /\ WF_vars(settle)

FairSpec == Spec /\ Fairness

(***************************************************************************)
(* Properties of the pipeline (specifications Spec and FairSpec).          *)
(***************************************************************************)
Consumers == WorkerSet \ {"fetch_assets"}

\* C1: a consuming worker leaves its loop and closes its output only after
\* the upstream worker has closed the worker's input stream; no worker is
\* done while its upstream worker can still send.
C1_ExitOnlyAfterInputClosed ==
    \A d \in Consumers : pc[d] = "done" => sender_closed[In(d)]

\* C2: when every repeated fetch eventually returns a result and every
\* authenticator run returns, then once fetch_assets has sent its last
\* asset and closed its output, all six workers finish and fetch() returns.
C2_ShutdownCompletes ==
    [](\A w \in WorkerSet : error[w] # "IntegrityError") =>
        ((pc["fetch_assets"] = "done") ~>
            (orch = "returned" /\ \A w \in WorkerSet : pc[w] = "done"))

\* C3: the exit of a worker makes no send of a sibling fail: no worker is
\* ever ended by a BrokenResourceError (and so none is cancelled for it).
C3_ExitNeverBreaksSibling ==
    \A w \in WorkerSet : error[w] # "BrokenResourceError"

\* the parse step of each consuming worker named by C4
ParseOf(w) ==
    CASE w = "fetch_categories" -> "parse_asset"
      [] w = "fetch_metrics" -> "parse_category"
      [] w = "fetch_charts" -> "parse_metric"
      [] w = "fetch_chart" -> "parse_chart"

\* C4: when the parse step of CategoryExpander, MetricExpander,
\* ChartExpander or ChartFetcher returns skip for an item, the worker drops
\* that item and goes on to receive the next item of its input.
C4_SkipContinues ==
    [][\A w \in Consumers \ {"fetch_chart_values"} :
          (<<ParseOf(w), cur[w]>> \in skipped' \ skipped) =>
              pc'[w] = "recv"]_vars

\* the state of worker w right after its fetch for cur[w] has returned a
\* result: the outputs of that item are to be sent
EmittedFor(w) ==
    CASE w = "fetch_assets" ->
            LET L == Allowed(self.assets, Listing(<<>>))
            IN IF L = <<>> THEN pc'[w] = "done"
               ELSE pc'[w] = "send" /\ out'[w] = L
      [] w = "fetch_categories" ->
            LET L == Allowed(self.categories, Listing(cur[w]))
            IN IF L = <<>> THEN pc'[w] = "recv"
               ELSE pc'[w] = "send" /\ out'[w] = L /\ cur'[w] = cur[w]
      [] w = "fetch_charts" -> pc'[w] = "fields" /\ cur'[w] = cur[w]
      [] w = "fetch_chart" ->
            /\ pc'[w] = "send"
            /\ cur'[w] = cur[w]
            /\ \E v \in {"rows", "empty"} : out'[w] = <<cur[w] \o <<v>> >>

\* C5: a worker whose fetch returns None keeps its current item and only
\* alternates between the authenticator and the same fetch until the fetch
\* returns a result, and then emits the outputs of that item; it neither
\* receives the next item nor drops the current one nor raises.  (The
\* only other way out of the loop is the task group cancelling the worker
\* after a sibling has raised, which is no step of the worker.)
C5_RetrySameItem ==
    [][\A w \in FetchWorkers :
          pc[w] \in {"fetch", "auth"} =>
              \/ pc'[w] = "cancelled"
              \/ pc'[w] \in {"fetch", "auth"} /\ cur'[w] = cur[w]
              \/ pc[w] = "fetch" /\ EmittedFor(w)]_vars

C5_Witness ==
    \E w \in FetchWorkers :
        /\ retry[w]
        /\ pc[w] = "send"
        /\ cur[w] # <<>>
        /\ out[w] # <<>>

\* C6: whenever a worker is about to repeat a fetch that returned None, it
\* has completed exactly one authenticator run since the failed attempt.
C6_OneAuthRunPerRetry ==
    \A w \in FetchWorkers :
        (pc[w] = "fetch" /\ retry[w]) => auth_runs[w] = 1

C6_Witness ==
    \E w \in FetchWorkers \ {"fetch_assets"} :
        /\ pc[w] = "fetch"
        /\ retry[w]
        /\ auth_runs[w] = 1
        /\ cur[w] # <<>>

\* the inclusion rule of a role for a chart of the catalog metric: a chart
\* without the role is included; with an empty allow-list a chart is
\* included unless the listing has a wildcard-keyed chart on the role and
\* the chart's key is none of the wildcard keys; with a non-empty allow-list
\* a chart is included iff its key is in the allow-list
IncludedOn(role, chart) ==
    LET key == chart[role]
        wildcard == \E k \in 1..MaxMetricCharts :
                        CatalogChart(k)[role] \in WildcardKeys(role)
    IN \/ key = None
       \/ Allow(role) = {} /\ (~wildcard \/ key \in WildcardKeys(role))
       \/ Allow(role) # {} /\ key \in Allow(role)

\* the chart k of the catalog metric is included on all nine roles and the
\* metric passes the fields check
ToForward(k) ==
    /\ self.fields \subseteq field_keys_of(CatalogMetric)
    /\ \A role \in Roles : IncludedOn(role, CatalogChart(k))

RECURSIVE ForwardedItems(_, _)
ForwardedItems(item, k) ==
    IF k > MaxMetricCharts THEN <<>>
    ELSE (IF ToForward(k) THEN <<item \o <<k>> >> ELSE <<>>)
         \o ForwardedItems(item, k + 1)

ChartEntities == {"AssetMetricChart", "AssetMetricChartValue"}

DimensionEntities == {"Miner", "Market", "Exchange", "Bank", "Symbol"}

\* C12: fetch_charts forwards a chart to fetch_chart iff the chart is
\* included on all nine roles and the fields check passes, and a chart that
\* is not forwarded is never persisted: no chart row, no value row and no
\* dimension row of it is ever written.
C12_ForwardIffIncluded ==
    [][LET w == "fetch_charts"
           expected == ForwardedItems(cur[w], 1)
       IN /\ (pc[w] = "fields" /\ pc'[w] \in {"send", "recv"}) =>
                 IF expected = <<>> THEN pc'[w] = "recv"
                 ELSE pc'[w] = "send" /\ out'[w] = expected
          /\ \A row \in store' :
                /\ row[1] \in ChartEntities => ToForward(row[2][4])
                /\ row[1] \in DimensionEntities =>
                      \E k \in 1..MaxMetricCharts :
                          /\ ToForward(k)
                          /\ row \in Range(DimensionMerges(
                                            CatalogChart(k)))]_vars

(***************************************************************************)
(* CryptoQuantAuthorization.run (lib/authorization), one action per step   *)
(* between two awaits.  A `continue` is a step of its own: the task holds  *)
(* nothing but its three flags there, so the extra interleavings add no    *)
(* behaviour.                                                              *)
(***************************************************************************)
\* lines 71-88: the branch of the loop body the flags select
branch_stored_first(l) ==
    IF ~l.fetched_headers THEN "HeaderToken"
    ELSE IF ~l.fetched_auth THEN "StoredToken"
    ELSE IF ~l.fetched_parameters THEN "PasswordSignIn"
    ELSE "InteractivePrompt"

branch(l) ==
    IF ~l.fetched_headers THEN "HeaderToken"
    ELSE IF ~l.fetched_parameters THEN "PasswordSignIn"
    ELSE IF ~l.fetched_auth THEN "StoredToken"
    ELSE "InteractivePrompt"

\* lines 70, 72, 75, 81: the locals at the start of the selected branch
Flagged(l, st) ==
    LET m == [l EXCEPT !.access = Null, !.refresh = Null] IN
    CASE st = "HeaderToken" -> [m EXCEPT !.fetched_headers = TRUE]
      [] st = "PasswordSignIn" -> [m EXCEPT !.fetched_parameters = TRUE]
      [] st = "StoredToken" -> [m EXCEPT !.fetched_auth = TRUE]
      [] OTHER -> m

\* line 76: if self.username and self.password
has_credentials_unchecked(a) == TRUE

has_credentials(a) == Truthy(a.username) /\ Truthy(a.password)

\* lines 101, 106: `(username := await fetch_me(...)) is not None`
whoami_breaks_always(username) == TRUE

whoami_breaks(username) == username # Null

\* fetch_me, lines 22-30: the server accepts the bearer token of the request
me_ok(request) ==
    /\ Len(request) = 2
    /\ request[1] = "Bearer "
    /\ request[2] \in valid

fetch_me(request) == IF me_ok(request) THEN Str("user") ELSE Null

\* the check constraints of service.authorization, lines 12-30
Constraints(row) ==
    /\ row.username # Null
    /\ row.username # <<>>
    /\ \/ row.access_token = Null
       \/ row.refresh_token # Null /\ row.access_token # <<>>
    /\ \/ row.refresh_token = Null
       \/ row.access_token # Null /\ row.refresh_token # <<>>

\* Session.merge: insert or update by primary key
Merge(rows, row) ==
    {x \in rows : x.username # row.username} \cup {row}

Inc(n) == IF n < MaxEntries THEN n + 1 ELSE n

\* calls made since the state was entered, counted up to MaxCalls
Count(n) == IF n < MaxCalls THEN n + 1 ELSE n

Enter(h, st) ==
    [h EXCEPT !.state = st, !.entries[st] = Inc(@), !.whoamis = 0,
              !.reissues = 0]

AuthFrame ==
    UNCHANGED <<self, outerVars, filterVars, pipeVars, auth_arg, via, auth,
                valid>>

\* lines 96-101 up to the await of fetch_me: normalise the tokens, and with
\* an access token install it as the bearer header and send the whoami
\* request, which carries the header of that moment
Validate(r, l, access, refresh) ==
    LET a == removeprefix(OrEmpty(access))
        f == removeprefix(OrEmpty(refresh))
        m == [l EXCEPT !.access = a, !.refresh = f]
    IN IF a = <<>>
       THEN /\ run' = [run EXCEPT ![r] = [m EXCEPT !.pc = "loop"]]
            /\ UNCHANGED session_headers
       ELSE /\ session_headers' = Bearer(a)
            /\ run' = [run EXCEPT
                          ![r] = [m EXCEPT !.pc = "me",
                                           !.request = Bearer(a)]]

\* a task calls run(): lines 66-68 (one call per task; a later call is the
\* call of a task that starts later)
auth_run(r) ==
    /\ orch = "idle"
    /\ run[r].pc = "idle"
    /\ run' = [run EXCEPT ![r] = [NewRun EXCEPT !.pc = "loop"]]
    /\ hist' = [hist EXCEPT ![r] = NoHist]
    /\ UNCHANGED <<session_headers, authorizations>>
    /\ AuthFrame

\* lines 69-95: the top of the loop body up to the await of its branch
loop_body(r) ==
    /\ run[r].pc = "loop"
    /\ LET st == branch(run[r])
           l == Flagged(run[r], st)
           call == has_credentials(auth)
       IN /\ CASE st = "HeaderToken" ->
                     Validate(r, l, session_headers, Null)
               [] st = "PasswordSignIn" ->
                     IF call
                     THEN /\ run' = [run EXCEPT
                                        ![r] = [l EXCEPT !.pc = "sign_in"]]
                          /\ UNCHANGED session_headers
                     ELSE Validate(r, l, Null, Null)
               [] st = "StoredToken" ->
                     IF Truthy(auth.username)
                     THEN /\ run' = [run EXCEPT ![r] = [l EXCEPT !.pc = "get"]]
                          /\ UNCHANGED session_headers
                     ELSE Validate(r, l, Null, Null)
               [] st = "InteractivePrompt" ->
                     /\ run' = [run EXCEPT ![r] = [l EXCEPT !.pc = "input"]]
                     /\ UNCHANGED session_headers
          /\ hist' = [hist EXCEPT
                        ![r] = [Enter(@, st) EXCEPT
                                  !.header =
                                      IF st = "HeaderToken"
                                      THEN session_headers ELSE @,
                                  !.sign_ins =
                                      IF st = "PasswordSignIn" /\ call
                                      THEN Inc(@) ELSE @]]
    /\ UNCHANGED authorizations
    /\ AuthFrame

\* lines 77-79: fetch_sign_in with the configured credentials returns
sign_in(r) ==
    /\ run[r].pc = "sign_in"
    /\ \/ Validate(r, run[r], Str(SignInToken(r)),
                   RefreshOf(SignInToken(r)))
       \/ Validate(r, run[r], Null, Null)
    /\ UNCHANGED <<authorizations, hist>>
    /\ AuthFrame

\* lines 83-87: Session.get(Authorization, self.username) returns
get(r) ==
    /\ run[r].pc = "get"
    /\ LET rows == {x \in authorizations : x.username = auth.username}
       IN IF rows = {} THEN Validate(r, run[r], Null, Null)
          ELSE LET row == CHOOSE x \in rows : TRUE
               IN Validate(r, run[r], row.access_token, row.refresh_token)
    /\ UNCHANGED <<authorizations, hist>>
    /\ AuthFrame

\* lines 89-95: the two inputs and fetch_sign_in with them return
input(r) ==
    /\ run[r].pc = "input"
    /\ \/ Validate(r, run[r], Str(PromptToken(r)),
                   RefreshOf(PromptToken(r)))
       \/ Validate(r, run[r], Null, Null)
    /\ UNCHANGED <<authorizations, hist>>
    /\ AuthFrame

\* lines 101-104: the first fetch_me returns
me(r) ==
    /\ run[r].pc = "me"
    /\ LET username == fetch_me(run[r].request)
           l == [run[r] EXCEPT !.username = username]
       IN /\ run' = [run EXCEPT
                        ![r] = [l EXCEPT
                                  !.pc = IF whoami_breaks(username)
                                         THEN "break"
                                         ELSE IF l.refresh = <<>> THEN "loop"
                                         ELSE "token"]]
          /\ hist' = [hist EXCEPT
                        ![r] = [@ EXCEPT
                                  !.whoamis = Count(@),
                                  !.whoami = IF username # Null THEN "ok"
                                             ELSE "failed",
                                  !.validated =
                                      IF username # Null
                                      THEN removeprefix(run[r].request)
                                      ELSE @]]
    /\ UNCHANGED <<session_headers, authorizations>>
    /\ AuthFrame

\* a loop that reissues again when the re-validation has failed
revalidate_failed_pc_reissue == "token"

\* lines 106-107 and 69: the second fetch_me has returned None and the
\* `while True` loop starts its next iteration
revalidate_failed_pc == "loop"

\* lines 105-106: fetch_token returns, and the second whoami request is
\* sent with the header of that moment
token(r) ==
    /\ run[r].pc = "token"
    /\ \E ok \in BOOLEAN :
          run' = [run EXCEPT
                    ![r] = [@ EXCEPT
                              !.access = IF ok THEN Str(ReissueToken(r))
                                         ELSE Null,
                              !.refresh = IF ok THEN RefreshOf(ReissueToken(r))
                                          ELSE Null,
                              !.request = session_headers,
                              !.pc = "me_again"]]
    /\ hist' = [hist EXCEPT ![r] = [@ EXCEPT !.reissues = Count(@)]]
    /\ UNCHANGED <<session_headers, authorizations>>
    /\ AuthFrame

\* lines 106-107: the second fetch_me returns
me_again(r) ==
    /\ run[r].pc = "me_again"
    /\ LET username == fetch_me(run[r].request)
       IN /\ run' = [run EXCEPT
                        ![r] = [@ EXCEPT
                                  !.username = username,
                                  !.pc = IF whoami_breaks(username)
                                         THEN "break"
                                         ELSE revalidate_failed_pc]]
          /\ hist' = [hist EXCEPT
                        ![r] = [@ EXCEPT
                                  !.whoamis = Count(@),
                                  !.whoami = IF username # Null THEN "ok"
                                             ELSE "failed",
                                  !.validated =
                                      IF username # Null
                                      THEN removeprefix(run[r].request)
                                      ELSE @]]
    /\ UNCHANGED <<session_headers, authorizations>>
    /\ AuthFrame

\* lines 109-117: merge and commit the credential, then return
merge(r) ==
    /\ run[r].pc = "break"
    /\ LET row == [username |-> run[r].username,
                   access_token |-> run[r].access,
                   refresh_token |-> run[r].refresh]
       IN IF run[r].refresh = Null
          THEN /\ run' = [run EXCEPT ![r] = [@ EXCEPT !.pc = "returned"]]
               /\ UNCHANGED <<authorizations, hist>>
          ELSE IF Constraints(row)
          THEN /\ run' = [run EXCEPT ![r] = [@ EXCEPT !.pc = "returned"]]
               /\ authorizations' = Merge(authorizations, row)
               /\ hist' = [hist EXCEPT ![r] = [@ EXCEPT !.merged = TRUE]]
          ELSE /\ run' = [run EXCEPT ![r] = [@ EXCEPT !.pc = "raised"]]
               /\ hist' = [hist EXCEPT
                             ![r] = [@ EXCEPT !.error = "IntegrityError"]]
               /\ UNCHANGED authorizations
    /\ UNCHANGED session_headers
    /\ AuthFrame

\* the inputs of the authenticator specification
HeaderInputs == {Null, Str("hdr"), Bearer(Str("hdr"))}

StoredRow ==
    [username |-> Str("user"), access_token |-> Str("sto"),
     refresh_token |-> RefreshOf("sto")]

AuthInit ==
    /\ PipeIdle
    /\ self = NoFilter
    /\ metric = [charts |-> <<>>, metricFields |-> <<>>]
    /\ fpc = "listing"
    /\ passed = <<>>
    /\ sent = <<>>
    /\ \E username \in {Null, Str("user")}, password \in {Null, Str("pw")} :
          auth_arg = CryptoQuantAuthorization(username, password)
    /\ via \in {"caller", "CryptoQuantChart"}
    /\ auth = IF via = "CryptoQuantChart"
              THEN chart_auth("ClientSession", auth_arg)
              ELSE auth_arg
    /\ session_headers \in HeaderInputs
    /\ authorizations \in {{}, {StoredRow}}
    /\ \E S \in SUBSET {"hdr", "sto"} :
          /\ "hdr" \in S => session_headers # Null
          /\ "sto" \in S => authorizations # {}
          /\ valid = Issued \cup S
    /\ run = [r \in Runners |-> NewRun]
    /\ hist = [r \in Runners |-> NoHist]

AuthNext ==
    \E r \in Runners :
        \/ auth_run(r)
        \/ loop_body(r)
        \/ sign_in(r)
        \/ get(r)
        \/ input(r)
        \/ me(r)
        \/ token(r)
        \/ me_again(r)
        \/ merge(r)

SpecAuth == AuthInit /\ [][AuthNext]_vars

(***************************************************************************)
(* Properties of the authenticator (specification SpecAuth).               *)
(***************************************************************************)
\* position of an authenticator state in the order of the run (0: none)
Rank(st) ==
    CASE st = "HeaderToken" -> 1
      [] st = "PasswordSignIn" -> 2
      [] st = "StoredToken" -> 3
      [] st = "InteractivePrompt" -> 4
      [] OTHER -> 0

\* C14: within one run the states are entered in the order HeaderToken,
\* PasswordSignIn, StoredToken, InteractivePrompt: each of the first three
\* at most once and never after a later state, InteractivePrompt only after
\* the three earlier states have been left, and again after each of its own
\* failures; no other step changes the state of the run.
C14_StateOrder ==
    [][\A r \in Runners :
          /\ (run[r].pc = "loop" /\ run'[r] # run[r]) =>
                \/ Rank(hist'[r].state) = Rank(hist[r].state) + 1
                \/ /\ hist[r].state = "InteractivePrompt"
                   /\ hist'[r].state = "InteractivePrompt"
          /\ run[r].pc \notin {"loop", "idle", "returned"} =>
                hist'[r].state = hist[r].state
          /\ \A st \in AuthenticatorStates \ {"InteractivePrompt"} :
                hist'[r].entries[st] <= 1]_vars

C14_Witness ==
    \E r \in Runners :
        /\ run[r].pc = "returned"
        /\ hist[r].entries["HeaderToken"] = 1
        /\ hist[r].entries["PasswordSignIn"] = 1
        /\ hist[r].entries["StoredToken"] = 1
        /\ hist[r].entries["InteractivePrompt"] = 2
        /\ hist[r].sign_ins = 1

\* the run of task r has ended: it has left the loop, returned or raised
Left(r) == run[r].pc \in {"break", "returned", "raised"}

\* the run of task r has read a header token that the server rejects
StaleHeader(r) ==
    /\ hist[r].header # Null
    /\ hist[r].whoami # "none" \/ Rank(hist[r].state) >= 2
    /\ ~me_ok(Bearer(removeprefix(hist[r].header)))

\* task r is the only one that has called run()
Alone(r) == \A q \in Runners \ {r} : run[q].pc = "idle"

\* C15: a run that finds a stale header token, with no username and password
\* configured and no stored credential, makes no sign-in call with
\* configured credentials and does not end before it is in InteractivePrompt
\* and a whoami call has validated the token obtained with the credentials
\* given at the prompt; after wrong credentials at the prompt the run stays
\* in InteractivePrompt.
C15_StaleHeaderPrompts ==
    [][\A r \in Runners :
          (/\ Alone(r)
           /\ StaleHeader(r)
           /\ ~Truthy(auth.username) /\ ~Truthy(auth.password)
           /\ ~Left(r)) =>
              /\ hist'[r].sign_ins = 0
              /\ run'[r].pc \notin {"sign_in", "get"}
              /\ run'[r].pc = "break" =>
                    /\ hist'[r].state = "InteractivePrompt"
                    /\ hist'[r].whoami = "ok"
                    /\ hist'[r].validated = Str(PromptToken(r))
                    /\ run'[r].access = Str(PromptToken(r))
              /\ run'[r].pc \notin {"break", "loop"} =>
                    \/ hist'[r].state = hist[r].state
                    \/ hist'[r].state = "InteractivePrompt"
              /\ hist[r].state = "InteractivePrompt" =>
                    hist'[r].state = "InteractivePrompt"
              /\ run'[r].pc \notin {"returned", "raised"}]_vars

C15_Witness ==
    \E r \in Runners :
        /\ Alone(r)
        /\ StaleHeader(r)
        /\ ~Truthy(auth.username) /\ ~Truthy(auth.password)
        /\ authorizations = {[username |-> Str("user"),
                              access_token |-> Str(PromptToken(r)),
                              refresh_token |-> RefreshOf(PromptToken(r))]}
        /\ run[r].pc = "returned"
        /\ hist[r].entries["InteractivePrompt"] = 2
        /\ hist[r].sign_ins = 0
        /\ hist[r].validated = Str(PromptToken(r))

\* C16: the authenticator the stages run is the one the caller configured:
\* when the caller's authenticator carries a username and a password, a run
\* started by a stage whose header token fails has called sign-in with
\* these credentials exactly once before it is in StoredToken or
\* InteractivePrompt.
C16_CallerAuthenticatorRuns ==
    \A r \in Runners :
        (/\ via = "CryptoQuantChart"
         /\ Truthy(auth_arg.username) /\ Truthy(auth_arg.password)
         /\ hist[r].state \in {"StoredToken", "InteractivePrompt"}) =>
            hist[r].sign_ins = 1

\* C17: a run upserts the stored credential iff it completed with a refresh
\* token it has actually obtained; a run that succeeds on a header token
\* alone writes nothing and raises no persistence error.
C17_PersistIffRefresh ==
    \A r \in Runners :
        /\ run[r].pc # "raised"
        /\ run[r].pc = "returned" =>
              (hist[r].merged <=> Truthy(run[r].refresh))

\* C18: a run returns only after a whoami call made during that run has
\* succeeded: it never leaves the loop or returns when its last whoami call
\* failed or when it has installed no access token.
C18_ReturnsOnlyValidated ==
    \A r \in Runners :
        run[r].pc \in {"break", "returned", "raised"} =>
            /\ hist[r].whoami = "ok"
            /\ run[r].username # Null
            /\ hist[r].validated # Null
            /\ me_ok(Bearer(hist[r].validated))

C18_Witness ==
    \E r \in Runners :
        /\ run[r].pc = "returned"
        /\ hist[r].state = "StoredToken"
        /\ hist[r].whoami = "ok"
        /\ hist[r].validated = Str("sto")
        /\ "hdr" \notin valid
        /\ hist[r].header # Null

\* C19: with the stages running the authenticator concurrently on the shared
\* client, whenever a run completes successfully the bearer header is
\* 'Bearer ' plus the access token that run has validated, and it is a token
\* the server accepts.
C19_HeaderIsValidatedToken ==
    [][\A r \in Runners :
          (/\ via = "CryptoQuantChart"
           /\ run[r].pc # "returned"
           /\ run'[r].pc = "returned") =>
              /\ session_headers' = Bearer(hist'[r].validated)
              /\ me_ok(session_headers')]_vars

\* C20: every hand-off queue is a rendezvous channel: no queue ever holds a
\* buffered item, a send completes only together with a receive of the same
\* item (so on every edge as many sends as receives have completed), and a
\* stage that is receiving holds no unfinished input item, so that it never
\* holds more than the one item it has received last.
C20_Rendezvous ==
    /\ \A st \in Streams :
          /\ buffer[st] = <<>>
          /\ sends[st] = receives[st]
    /\ \A w \in WorkerSet :
          pc[w] = "recv" => cur[w] = <<>> /\ out[w] = <<>>

C20_Witness ==
    /\ \A st \in Streams : sends[st] >= 1 /\ receives[st] = sends[st]
    /\ sends["asset"] = 2
    /\ pc["fetch_assets"] = "done"
    /\ cur["fetch_categories"] = <<2>>
    /\ pc["fetch_categories"] = "send"
    /\ cur["fetch_chart_values"] # <<>>

(***************************************************************************)
(* Backpressure and independence of the stages (specification Spec).       *)
(***************************************************************************)
\* the position of a worker in the pipeline
Pos(w) == CHOOSE i \in 1..Len(Workers) : Workers[i] = w

\* the worker that receives what w sends
Consumer(w) == Workers[Pos(w) + 1]

\* the steps worker w takes on its own, between a receive and a send
WorkerStep(w) ==
    \/ w = "fetch_assets" /\ fetch_assets_call
    \/ w = "fetch_categories" /\ (parse_asset \/ fetch_metrics_call)
    \/ w = "fetch_metrics" /\ parse_category
    \/ w = "fetch_charts"
          /\ (parse_metric \/ fetch_charts_call \/ parse_metric_fields)
    \/ w = "fetch_chart" /\ (parse_chart \/ fetch_chart_call)
    \/ w = "fetch_chart_values" /\ parse_chart_value
    \/ run_auth(w)

\* worker w is between a receive and a send: it persists, fetches or runs
\* the authenticator
Holding(w) == pc[w] \in {"parse", "fetch", "fields", "auth"}

\* C21: backpressure propagates one stage at a time.  While a stage is
\* stalled in re-authentication, its immediate upstream producer is blocked
\* at its send; every earlier stage still takes its own steps, and its send
\* is blocked exactly while its own consumer is not receiving, whatever a
\* stage two or more positions downstream is doing.
C21_Backpressure ==
    Running =>
      \A s \in Consumers : pc[s] = "auth" =>
        \A u \in WorkerSet :
          /\ (Pos(u) + 1 = Pos(s) /\ pc[u] = "send")
                => ~ENABLED send_receive(u, s)
          /\ (Pos(u) + 1 < Pos(s) /\ Holding(u)) => ENABLED WorkerStep(u)
          /\ (Pos(u) + 1 < Pos(s) /\ pc[u] = "send")
                => (ENABLED send_receive(u, Consumer(u))
                      <=> pc[Consumer(u)] = "recv")

\* fetch_chart re-authenticates, fetch_charts is blocked at the send of its
\* second chart, and fetch_metrics works on the category of the next asset
C21_Witness ==
    /\ Running
    /\ pc["fetch_chart"] = "auth"
    /\ pc["fetch_charts"] = "send"
    /\ pc["fetch_metrics"] = "parse"
    /\ cur["fetch_metrics"] = <<2, 1>>

\* C22: while a stage is inside its authenticator retry loop, every stage
\* past it that holds an item still takes its steps on that item: it
\* persists and fetches, and its send completes as soon as its own consumer
\* receives.
C22_AuthDoesNotBlockDownstream ==
    (orch = "running" /\ ~Aborting) =>
      \A s \in WorkerSet : pc[s] = "auth" =>
        \A d \in WorkerSet : Pos(d) > Pos(s) =>
          /\ Holding(d) => ENABLED WorkerStep(d)
          /\ (pc[d] = "send" /\ pc[Consumer(d)] = "recv")
                => ENABLED send_receive(d, Consumer(d))

\* fetch_categories re-authenticates for the second asset while fetch_chart
\* holds a chart of the first asset and fetch_charts is sending the next
C22_Witness ==
    /\ Running
    /\ pc["fetch_categories"] = "auth"
    /\ cur["fetch_categories"] = <<2>>
    /\ pc["fetch_chart"] = "fetch"
    /\ cur["fetch_chart"][1] = 1
    /\ pc["fetch_charts"] = "send"

(***************************************************************************)
(* Order of the items on the streams (specification Spec).                 *)
(***************************************************************************)
\* the input item an output item is derived from
Parent(item) == SubSeq(item, 1, Len(item) - 1)

\* the outputs derive, one after the other, from inputs at positions that
\* never go back, starting at position p; an input may be sent more than
\* once (an allow-list may name an id twice)
RECURSIVE InOrder(_, _, _)
InOrder(outs, ins, p) ==
    IF outs = <<>> THEN TRUE
    ELSE LET at == {q \in p..Len(ins) : ins[q] = Parent(Head(outs))}
         IN /\ at # {}
            /\ InOrder(Tail(outs), ins, CHOOSE q \in at : \A r \in at : q <= r)

\* C23: within one stage the items are processed and forwarded in the order
\* received: every item sent on a stage's output stream is derived from an
\* item already sent on its input stream (a chart is sent on the chart
\* stream only after its metric was sent on the metric stream), and the
\* outputs follow each other in the order of the inputs they derive from.
C23_StageOrder ==
    \A w \in Consumers :
        Out(w) # "" => InOrder(log[Out(w)], log[In(w)], 1)

\* charts of two metrics have been forwarded and their values sent
C23_Witness ==
    /\ Len(log["chart"]) >= 2
    /\ Parent(log["chart"][1]) # Parent(log["chart"][2])
    /\ Len(log["value"]) >= 2
    /\ Len(log["metric"]) >= 2

(***************************************************************************)
(* Referential integrity of the store (specification Spec).                *)
(***************************************************************************)
\* the rows the foreign keys of a row refer to (models/public: Metric.
\* category_path, AssetMetric.asset_id and metric_path, AssetMetricField.
\* asset_metric_id, AssetMetricChart.asset_metric_id and its nine role
\* keys, AssetMetricChartValue.asset_metric_chart_id)
RoleEntity(role) ==
    CASE role \in {"miner", "fromMiner", "toMiner"} -> "Miner"
      [] role = "market" -> "Market"
      [] role \in {"exchange", "fromExchange", "toExchange"} -> "Exchange"
      [] role = "fromBank" -> "Bank"
      [] role = "symbol" -> "Symbol"

RoleReferences(chart) ==
    {<<RoleEntity(role), <<chart[role]>> >> :
        role \in {r \in DOMAIN chart : chart[r] # None}}

References(row) ==
    LET entity == row[1]
        key == row[2]
    IN CASE entity = "Metric" -> {<<"MetricCategory", <<key[1]>> >>}
         [] entity = "AssetMetric" ->
               {<<"Asset", <<key[1]>> >>, <<"Metric", Tail(key)>>}
         [] entity = "AssetMetricField" ->
               {<<"AssetMetric", SubSeq(key, 1, 3)>>}
         [] entity = "AssetMetricChart" ->
               {<<"AssetMetric", SubSeq(key, 1, 3)>>}
                  \cup RoleReferences(CatalogChart(key[4]))
         [] entity = "AssetMetricChartValue" -> {<<"AssetMetricChart", key>>}
         [] OTHER -> {}

\* C24: in every reachable store state the foreign keys of every persisted
\* row refer to persisted rows: parents are committed before the children
\* that refer to them, also when items are skipped.
C24_ForeignKeys == \A row \in store : References(row) \subseteq store

\* the rows of a chart of the second asset are persisted down to its
\* values, after an item of the first asset was skipped
C24_Witness ==
    /\ <<"AssetMetricChartValue", <<2, 1, 1, 1>> >> \in store
    /\ <<"Exchange", <<"all_exchange">> >> \in store
    /\ \E k \in skipped : k[2][1] = 1
    /\ <<"Asset", <<1>> >> \in store

(***************************************************************************)
(* The allow-lists of the first three stages (specification Spec).         *)
(***************************************************************************)
\* the allow-list a worker applies to what it has fetched
AllowListOf(w) ==
    CASE w = "fetch_assets" -> self.assets
      [] w = "fetch_categories" -> self.categories
      [] w = "fetch_metrics" -> self.metrics

\* the step in which a worker has its listing and starts to emit
EmitsFrom(w) == IF w = "fetch_metrics" THEN "parse" ELSE "fetch"

\* the listed entries the allow-list names; every entry for an empty list
Named(allow, listing) ==
    IF allow = <<>> THEN Range(listing)
    ELSE {e \in Range(listing) : Last(e) \in Range(allow)}

\* C27: AssetSource, CategoryExpander and MetricExpander emit exactly the
\* fetched entries whose path is in the allow-list, and every fetched entry
\* when the allow-list is empty; an allow-list id that is not in the fetched
\* listing raises no error and does not keep the other entries from being
\* emitted.
C27_AllowListEmits ==
    [][\A w \in {"fetch_assets", "fetch_categories", "fetch_metrics"} :
          /\ (pc[w] = EmitsFrom(w) /\ pc'[w] \in {"send", "recv", "done"}
                 /\ <<"parse_category", cur[w]>> \notin skipped')
                => Range(out'[w]) = Named(AllowListOf(w), Listing(cur[w]))
          /\ pc[w] = EmitsFrom(w) => pc'[w] # "failed"]_vars

\* allow-lists that name an absent id before a listed one have been
\* applied by all three stages, and the listed metric has been sent
C27_Witness ==
    /\ self.assets = <<Absent, MaxAssets>>
    /\ self.metrics = <<Absent, 1>>
    /\ log["asset"] = << <<MaxAssets>> >>
    /\ Len(log["category"]) = 2
    /\ Len(log["metric"]) >= 1

(***************************************************************************)
(* Completion of fetch() (specification Spec).                             *)
(***************************************************************************)
\* C29: fetch() declares the fetch complete only after all six workers
\* have ended and one settle delay has then elapsed: the settle delay starts
\* when the task group has been left with every worker ended, completion
\* follows the settle delay and nothing else, and no worker takes a step
\* once the task group has been left.
C29_CompleteAfterJoinAndSettle ==
    [][/\ (orch' = "settle" /\ orch # "settle")
             => (orch = "running" /\ \A w \in WorkerSet : pc[w] \in Ended)
       /\ (orch' = "returned" /\ orch # "returned")
             => (orch = "settle" /\ \A w \in WorkerSet : pc[w] \in Ended)
       /\ orch \in {"settle", "returned"} => pc' = pc]_vars

\* fetch() has returned after a run that has persisted the values of a
\* chart
C29_Witness ==
    /\ orch = "returned"
    /\ \A w \in WorkerSet : pc[w] = "done"
    /\ \E row \in store : row[1] = "AssetMetricChartValue"

(***************************************************************************)
(* Idempotence of the ingestion (specification SpecRerun).                 *)
(***************************************************************************)
\* the rows the stages AssetSource through ChartExpander persist
Ingested(rows) ==
    {row \in rows : row[1] \in {"Asset", "MetricCategory", "Metric",
                                 "AssetMetric", "AssetMetricField"}}

C30_FatalConfiguration ==
    LET predicts == \E i \in 1..Len(configs) : configs[i].predict = "True"
    IN /\ main.error = "RuntimeError"
             => (~predicts /\ requests = 0 /\ auth_calls = 0)
       /\ predicts => main.error # "RuntimeError"
       /\ (~predicts /\ main.pc \notin {"start", "check"})
             => (main.pc = "raised" /\ main.error = "RuntimeError")

\* two charts are configured, one with predict absent and one with predict
\* false and force set, charts are in the database, and main has raised
C30_Witness ==
    /\ Len(configs) = 2
    /\ configs[1].predict = None
    /\ configs[2].predict = "False"
    /\ configs[2].force = "True"
    /\ table # <<>>
    /\ main.pc = "raised"
    /\ main.error = "RuntimeError"

(***************************************************************************)
(* Field removal in get_charts (specification SpecMain).                   *)
(***************************************************************************)
\* the indexes of the fields of the database that are in F, in order
KeptIndexes(F) ==
    SelectSeq([k \in 1..Len(DbFields) |-> k], LAMBDA k : DbFields[k] \in F)

C32_FieldsSkipContinues ==
    [][LET w == "fetch_charts"
       IN (pc[w] = "fields"
              /\ <<"parse_metric_fields", cur[w]>> \in skipped')
             => (pc'[w] = "recv" /\ error'[w] = "none")]_vars

(***************************************************************************)
(* A value item that is skipped (specification Spec).                      *)
(***************************************************************************)
\* C33: ValueSink finishes every received item and then receives the next
\* one: an item for which parse_chart_value returns skip (empty value map,
\* chart absent from the store, invalid or conflicting row) is dropped, it
\* is not parsed again and it starts no authenticator run.
C33_ValueSkipContinues ==
    [][LET w == "fetch_chart_values"
       IN /\ (pc[w] = "parse"
                 /\ <<"parse_chart_value", cur[w]>> \in skipped')
                => pc'[w] = "recv"
          /\ pc'[w] # "auth"]_vars

(***************************************************************************)
(* The reissued token (specification SpecAuth).                            *)
(***************************************************************************)
\* C34: after a failed whoami with a refresh token, the authenticator gets
\* a new pair from the reissue endpoint and the whoami call that validates
\* it is made with the reissued access token as the bearer header of the
\* client; a run that is alone and has persisted a credential leaves that
\* credential's access token in the bearer header.
C34_ReissuedTokenInstalled ==
    \A r \in Runners :
        /\ (run[r].pc = "me_again" /\ run[r].access # Null)
              => run[r].request = Bearer(run[r].access)
        /\ (run[r].pc = "returned" /\ hist[r].merged /\ Alone(r))
              => session_headers = Bearer(run[r].access)

(***************************************************************************)
(* Calls per entered state (specification SpecAuth).                       *)
(***************************************************************************)
\* C35: per state entry the authenticator makes at most two whoami calls
\* and at most one reissue call; a reissue is made only after a failed
\* whoami with a non-empty refresh token; and when the re-validation has
\* failed the authenticator goes back to the top of its loop, where it
\* enters the next state (the prompt again, once it is at the prompt)
\* instead of reissuing again.
C35_OneReissuePerEntry ==
    [][\A r \in Runners :
          /\ hist'[r].whoamis <= 2
          /\ hist'[r].reissues <= 1
          /\ hist'[r].reissues > hist[r].reissues
                => /\ hist[r].whoami = "failed"
                   /\ hist[r].whoamis = 1
                   /\ Truthy(run[r].refresh)
          /\ (run[r].pc = "me_again" /\ run'[r].pc # "me_again"
                 /\ run'[r].username = Null)
                => run'[r].pc = "loop"
          /\ (run[r].pc = "loop" /\ run'[r].pc # "loop"
                 /\ hist[r].reissues = 1)
                => \/ Rank(hist'[r].state) > Rank(hist[r].state)
                   \/ hist'[r].state = "InteractivePrompt"]_vars

\* the stored token was rejected, the pair was reissued, the second whoami
\* has failed and the run is back at the top of its loop
C35_Witness ==
    \E r \in Runners :
        /\ hist[r].state = "StoredToken"
        /\ hist[r].whoamis = 2
        /\ hist[r].reissues = 1
        /\ hist[r].whoami = "failed"
        /\ run[r].pc = "loop"

(***************************************************************************)
(* Entries sent once (specification Spec).                                 *)
(***************************************************************************)
\* C38: within one run of fetch() AssetSource sends each asset at most
\* once, CategoryExpander each (asset, category) at most once and
\* MetricExpander each (asset, category, metric) at most once, whatever the
\* allow-lists, also when an allow-list names an id more than once.
C38_EmittedOnce ==
    \A st \in {"asset", "category", "metric"} :
        \A i, j \in 1..Len(log[st]) :
            i # j => log[st][i] # log[st][j]

(***************************************************************************)
(* CryptoQuantChart.run (specification SpecMain).                          *)
(***************************************************************************)
\* C39: a call of CryptoQuantChart.run that has ended has called fetch()
\* exactly when the chart is forced or the store held no matching chart
\* when it was called; without fetch() it has made no catalog request and
\* has returned the stored charts; with fetch() the charts it returned
\* were read by the get_charts after fetch(); and when it returned, the
\* scoped session had been removed.
C39_FetchWhenNeeded ==
    LET r == main.run
        chart == main.charts[IF r.ended = "returned"
                             THEN main.index - 1 ELSE main.index]
    IN r.ended # "no" =>
          /\ r.fetched <=> (chart.force \/ r.stored = <<>>)
          /\ ~r.fetched =>
                /\ requests = r.before
                /\ r.ended = "returned"
                /\ Len(r.result) = Len(r.stored)
                /\ \A i \in 1..Len(r.stored) :
                      r.result[i].metric = r.stored[i].metric
          /\ (r.fetched /\ r.ended = "returned") => r.read = 2
          /\ r.ended = "returned" => r.session = "removed"

(***************************************************************************)
(* The task-scoped sessions of the workers (specification Spec).           *)
(***************************************************************************)
\* C36: a worker that waits for its next item has no session in the
\* scoped registry: the session it used for the parse of the item before
\* (persisted or skipped) and for the authenticator runs has been removed.
C36_SessionReleased ==
    \A w \in WorkerSet : pc[w] = "recv" => ~scoped[w]

C31_DecodedRows ==
    LET wire == decode.wire
        live == {i \in 1..Len(wire) :
                    \E j \in 1..Len(wire[i].v) : wire[i].v[j] # "null"}
        row(i) ==
            << <<wire[i].ts \div 1000, 1000 * (wire[i].ts % 1000)>>,
               [j \in 1..Len(wire[i].v) |->
                   IF wire[i].v[j] = "null" THEN <<None>>
                   ELSE <<"Decimal", wire[i].v[j]>>] >>
    IN decode.pc = "parsed" => decode.rows = {row(i) : i \in live}

====
